---------------------------- MODULE Spec2Model ----------------------------
(***************************************************************************)
(* A model of the tycho-hedge VM pool simulator.                           *)
(*                                                                         *)
(*   SpecDB    the storage substrate: SimulationDB and the                 *)
(*             OverriddenSimulationDB wrapper                              *)
(*             (tycho-swap/src/evm/engine_db/simulation_db.rs)             *)
(*   SpecSim   the EVM host: SimulationEngine::simulate over the substrate  *)
(*             (tycho-simulation/src/evm/simulation.rs)                    *)
(*   SpecPool  one EVMPoolState and the states its quotes return           *)
(*             (tycho-swap/src/evm/protocol/vm/state.rs)                   *)
(*   SpecPool3 the same over a pool of three tokens                        *)
(*   SpecQuick the quickstart's best-swap selector over a stream of blocks *)
(*             (tycho-simulation/examples/quickstart/main.rs)              *)
(*   SpecDecode the snapshot decoders of the VM pool and of Uniswap V4      *)
(*             (tycho-swap/src/evm/protocol/{vm,uniswap_v4}/tycho_decoder.rs) *)
(*   SpecService the quote service: the indexer's update tasks and the      *)
(*             HTTP handlers over the shared maps                          *)
(*             (tycho-swap/bin/service/main.rs)                            *)
(*   SpecShared two clones of one substrate, one of them in update_state    *)
(*   SpecLocks  threads reading and writing one substrate through the       *)
(*             RwLock of its account storage                               *)
(*   SpecVmLoop the VM decoder's loop over the stateless_contract_addr_<n>  *)
(*             attributes (tycho-swap/src/evm/protocol/vm/tycho_decoder.rs) *)
(*                                                                         *)
(* Every operation is a pure operator that maps the object before the call *)
(* to the object after it plus the value returned; an action applies one   *)
(* operator to the state and records the call and its result.              *)
(***************************************************************************)
EXTENDS Integers, Sequences, FiniteSets, TLC

VARIABLES
    accounts,   \* SimulationDB.account_storage: address -> account
    dbBlock,    \* SimulationDB.block: 0 is None, n > 0 is Some(header n)
    dbRet,      \* the last substrate call and what it returned
    simRet,     \* the last simulate call and what it returned
    pool,       \* the EVMPoolState the caller holds
    poolRet,    \* the last pool call and what it returned
    chain,      \* the swaps quoted since the pool's last update, in order
    pairs,      \* quickstart: component id -> registered ProtocolComponent
    amounts_out, \* quickstart: component id -> the amount last recorded for it
    quickRet,   \* the last get_best_swap call and what it returned
    decRet,  \* the last snapshot decoded and what its decoder returned
    service,  \* ServiceState: the shared maps pairs, amounts_out, tokens and last_block
    locks,  \* the RwLock of each shared map: its writer and its readers
    tasks,  \* the spawned update_state tasks and the HTTP handlers in flight
    feed,  \* the indexer task: tokens loaded, the blocks delivered so far
    httpRet,  \* the last HTTP response
    updRet,  \* the last update_state that ran and what it did
    updating,  \* the update_state call in progress on one handle of the substrate
    observed,  \* what a clone of the substrate read during that call, in order
    threads,  \* the substrate call each thread is in, on its own clone
    storageLock,  \* the RwLock around account_storage: its writer and its readers
    decoding   \* the VM decoder's loop over stateless_contract_addr_<n>: its snapshot, index and collected contracts

dbVars == <<accounts, dbBlock, dbRet>>

hostVars == <<simRet>>

poolVars == <<pool, poolRet, chain>>

quickVars == <<pairs, amounts_out, quickRet>>

decodeVars == <<decRet>>

serviceVars == <<service, locks, tasks, feed, httpRet, updRet>>

sharedVars == <<updating, observed>>

lockVars == <<threads, storageLock>>

vmLoopVars == <<decoding>>

\* What the substrate's own calls leave alone, and what the pool's calls do.
outsideDB == <<hostVars, poolVars, quickVars, decodeVars, serviceVars, sharedVars, lockVars, vmLoopVars>>

outsidePool == <<dbVars, hostVars, quickVars, decodeVars, serviceVars, sharedVars, lockVars, vmLoopVars>>

outsideQuick == <<dbVars, hostVars, poolVars, decodeVars, serviceVars, sharedVars, lockVars, vmLoopVars>>

vars == <<accounts, dbBlock, dbRet, simRet, pool, poolRet, chain, pairs, amounts_out, quickRet, decRet, service, locks, tasks, feed, httpRet, updRet, updating, observed, threads, storageLock, decoding>>

(***************************************************************************)
(* Bounds and sample inputs of the substrate.                              *)
(***************************************************************************)
MaxBlock == 1

Addrs == {"a1", "a2"}

Slots == {0, 1}

\* The slots the calls name per account: both for the first account, one for
\* the second.
SlotsOf(a) == IF a = "a1" THEN Slots ELSE {0}

Blocks == 1..MaxBlock

\* Partial maps slot -> value, the model of HashMap<U256, U256>.
EmptyMap == <<>>

MapsTo(S, V) == UNION {[D -> V] : D \in SUBSET S}

Put(m, k, v) == [x \in DOMAIN m \cup {k} |-> IF x = k THEN v ELSE m[x]]

\* HashMap::extend: every entry of src is written into m, src winning.
Extend(m, src) ==
    [x \in DOMAIN m \cup DOMAIN src |-> IF x \in DOMAIN src THEN src[x] ELSE m[x]]

\* let x = value; body(x): the value is computed once and body sees it.
Bind(value, body(_)) == CHOOSE y \in {body(x) : x \in {value}} : TRUE

(***************************************************************************)
(* The node behind the RPC client: the value it holds for a slot, and the   *)
(* balance it reports for an account, at the block the request names.      *)
(***************************************************************************)
RpcStorage(blk, a, s) == 10 + s

RpcBalance(blk, a) == 0

query_storage(blk, a, s) == RpcStorage(blk, a, s)

query_account_info(blk, a) == [balance |-> RpcBalance(blk, a)]

(***************************************************************************)
(* AccountStorage (account_storage.rs).                                    *)
(***************************************************************************)
NoBalance == -1

\* Option<HashMap<..>>: Some(m) is <<m>>, None is <<>>.
NoStorage == <<>>

SomeStorage(m) == <<m>>

get_account_info(db, a) == IF a \in DOMAIN db THEN db[a].balance ELSE NoBalance

\* Some(true) / Some(false) / None
is_mocked_account(db, a) ==
    IF a \in DOMAIN db THEN (IF db[a].mocked THEN "mocked" ELSE "real") ELSE "unknown"

get_permanent_storage(db, a, s) ==
    IF a \in DOMAIN db /\ s \in DOMAIN db[a].permanent
    THEN <<db[a].permanent[s]>> ELSE <<>>

\* Some(value) is <<value>>, None is <<>>: permanent first, then temporary.
get_storage(db, a, s) ==
    IF a \notin DOMAIN db THEN <<>>
    ELSE IF s \in DOMAIN db[a].permanent THEN <<db[a].permanent[s]>>
    ELSE IF s \in DOMAIN db[a].temp THEN <<db[a].temp[s]>>
    ELSE <<>>

account_init(db, a, info, permanent, mocked) ==
    IF a \in DOMAIN db THEN db
    ELSE [x \in DOMAIN db \cup {a} |->
            IF x = a
            THEN [balance |-> info.balance, permanent |-> permanent,
                  temp |-> EmptyMap, mocked |-> mocked]
            ELSE db[x]]

set_temp_storage(db, a, s, v) ==
    IF a \in DOMAIN db
    THEN [db EXCEPT ![a].temp = Put(@, s, v)]
    ELSE db

update_account(db, a, upd) ==
    IF a \notin DOMAIN db THEN db
    ELSE [db EXCEPT
            ![a].balance = IF upd.balance = NoBalance THEN @ ELSE upd.balance,
            ![a].permanent = IF upd.storage = NoStorage THEN @ ELSE Extend(@, upd.storage[1])]

account_clear_temp_storage(db) == [x \in DOMAIN db |-> [db[x] EXCEPT !.temp = EmptyMap]]


(***************************************************************************)
(* SimulationDB (simulation_db.rs).  Each operator returns the account     *)
(* storage after the call (reads populate the cache through the shared     *)
(* Arc<RwLock<..>>), the value returned and the number of RPC requests.    *)
(***************************************************************************)
init_account(db, a, info, permanent, mocked) ==
    account_init(db, a, info,
                 IF permanent = NoStorage THEN EmptyMap ELSE permanent[1], mocked)

clear_temp_storage(db) == account_clear_temp_storage(db)

basic_ref(db, blk, a) ==
    IF get_account_info(db, a) # NoBalance
    THEN [db |-> db, val |-> get_account_info(db, a), rpc |-> 0]
    ELSE LET info == query_account_info(blk, a)
         IN [db |-> init_account(db, a, info, NoStorage, FALSE),
             val |-> info.balance, rpc |-> 1]

\* storage_ref that treats a mocked account like any other account.
storage_ref_fetch_mocked(db, blk, a, s) ==
    LET local == get_storage(db, a, s)
    IN IF local # <<>>
       THEN [db |-> db, val |-> local[1], rpc |-> 0]
       ELSE IF a \in DOMAIN db
            THEN LET v == query_storage(blk, a, s)
                 IN [db |-> set_temp_storage(db, a, s, v), val |-> v, rpc |-> 1]
            ELSE LET info == query_account_info(blk, a)
                     v == query_storage(blk, a, s)
                 IN [db |-> set_temp_storage(
                               init_account(db, a, info, NoStorage, FALSE), a, s, v),
                     val |-> v, rpc |-> 2]

\* storage_ref that returns the fetched value without caching it.
storage_ref_no_cache(db, blk, a, s) ==
    LET is_mocked == is_mocked_account(db, a)
        local == get_storage(db, a, s)
    IN IF local # <<>>
       THEN [db |-> db, val |-> local[1], rpc |-> 0]
       ELSE CASE is_mocked = "mocked" ->
                    [db |-> db, val |-> 0, rpc |-> 0]
              [] is_mocked = "real" ->
                    [db |-> db, val |-> query_storage(blk, a, s), rpc |-> 1]
              [] OTHER ->
                    LET info == query_account_info(blk, a)
                    IN [db |-> init_account(db, a, info, NoStorage, FALSE),
                        val |-> query_storage(blk, a, s), rpc |-> 2]

storage_ref(db, blk, a, s) ==
    LET is_mocked == is_mocked_account(db, a)
        local == get_storage(db, a, s)
    IN IF local # <<>>
       THEN [db |-> db, val |-> local[1], rpc |-> 0]
       ELSE CASE is_mocked = "mocked" ->
                    [db |-> db, val |-> 0, rpc |-> 0]
              [] is_mocked = "real" ->
                    LET v == query_storage(blk, a, s)
                    IN [db |-> set_temp_storage(db, a, s, v), val |-> v, rpc |-> 1]
              [] OTHER ->
                    LET info == query_account_info(blk, a)
                        v == query_storage(blk, a, s)
                    IN [db |-> set_temp_storage(
                                  init_account(db, a, info, NoStorage, FALSE), a, s, v),
                        val |-> v, rpc |-> 2]

\* A revert entry that names every updated slot, zero for a slot that had no
\* permanent value.
revert_entry_all_slots(db, a, upd) ==
    [balance |-> get_account_info(db, a),
     storage |-> IF upd.storage = NoStorage THEN NoStorage
                 ELSE SomeStorage(
                        [s \in DOMAIN upd.storage[1] |->
                           IF get_permanent_storage(db, a, s) # <<>>
                           THEN get_permanent_storage(db, a, s)[1] ELSE 0])]

\* The revert entry of one address, built before its update is applied.
revert_entry(db, a, upd) ==
    [balance |-> get_account_info(db, a),
     storage |-> IF upd.storage = NoStorage THEN NoStorage
                 ELSE SomeStorage(
                        [s \in {x \in DOMAIN upd.storage[1] :
                                   get_permanent_storage(db, a, x) # <<>>}
                           |-> get_permanent_storage(db, a, s)[1]])]

RECURSIVE apply_updates(_, _, _)
apply_updates(db, updates, todo) ==
    IF todo = {} THEN db
    ELSE LET a == CHOOSE x \in todo : TRUE
         IN apply_updates(update_account(db, a, updates[a]), updates, todo \ {a})

update_state(db, updates, block) ==
    [db |-> apply_updates(db, updates, DOMAIN updates),
     block |-> block,
     revert |-> [a \in DOMAIN updates |-> revert_entry(db, a, updates[a])]]

(***************************************************************************)
(* OverriddenSimulationDB::storage_ref: inner records whether the wrapped  *)
(* database was asked.                                                     *)
(***************************************************************************)
\* A wrapper that answers zero for every slot of an account that has overrides
\* but not this one.
overridden_storage_ref_account_only(db, blk, overrides, a, s) ==
    IF a \notin DOMAIN overrides
    THEN storage_ref(db, blk, a, s) @@ [inner |-> TRUE]
    ELSE [db |-> db, rpc |-> 0, inner |-> FALSE,
          val |-> IF s \in DOMAIN overrides[a] THEN overrides[a][s] ELSE 0]

overridden_storage_ref(db, blk, overrides, a, s) ==
    IF a \notin DOMAIN overrides
    THEN storage_ref(db, blk, a, s) @@ [inner |-> TRUE]
    ELSE IF s \in DOMAIN overrides[a]
         THEN [db |-> db, val |-> overrides[a][s], rpc |-> 0, inner |-> FALSE]
         ELSE storage_ref(db, blk, a, s) @@ [inner |-> TRUE]


(***************************************************************************)
(* The substrate's inputs.                                                 *)
(***************************************************************************)
InitValue == 5

UpdateValue == 7

OverrideValue == 101

InitStorages == {NoStorage, SomeStorage([s \in {0} |-> InitValue])}

\* StateUpdate { storage: Option<HashMap>, balance: Option<U256> }
StateUpdates(a) ==
    [balance : {NoBalance, 1},
     storage : {NoStorage} \cup {SomeStorage(m) : m \in MapsTo(SlotsOf(a), {UpdateValue})}]

\* A batch names no account, one account (any update), or every account
\* (a balance for each, or one slot for each).
BatchUpdates ==
    {[balance |-> 1, storage |-> NoStorage],
     [balance |-> NoBalance, storage |-> SomeStorage([s \in {0} |-> UpdateValue])]}

UpdateMaps ==
    {EmptyMap} \cup UNION {{[x \in {a} |-> u] : u \in StateUpdates(a)} : a \in Addrs}
               \cup [Addrs -> BatchUpdates]

OverrideMaps ==
    {EmptyMap} \cup {[x \in {a} |-> m] : a \in Addrs, m \in MapsTo(Slots, {OverrideValue})}

NoRet ==
    [op |-> "new", addr |-> "", slot |-> 0, val |-> 0, rpc |-> 0, inner |-> FALSE,
     revert |-> EmptyMap]

InitDB ==
    /\ accounts = EmptyMap
    /\ dbBlock = 0
    /\ dbRet = NoRet
    /\ simRet = EmptyMap
    /\ pool = EmptyMap
    /\ poolRet = EmptyMap
    /\ chain = EmptyMap
    /\ pairs = EmptyMap
    /\ amounts_out = EmptyMap
    /\ quickRet = EmptyMap
    /\ decoding = EmptyMap
    /\ threads = EmptyMap
    /\ storageLock = EmptyMap
    /\ updating = EmptyMap
    /\ observed = EmptyMap
    /\ service = EmptyMap
    /\ locks = EmptyMap
    /\ tasks = EmptyMap
    /\ feed = EmptyMap
    /\ httpRet = EmptyMap
    /\ updRet = EmptyMap
    /\ decRet = EmptyMap

InitAccount(a, perm, mocked) ==
    /\ accounts' = init_account(accounts, a, [balance |-> 0], perm, mocked)
    /\ dbRet' = [NoRet EXCEPT !.op = "init_account", !.addr = a]
    /\ UNCHANGED <<dbBlock, outsideDB>>

ClearTempStorage ==
    /\ accounts' = clear_temp_storage(accounts)
    /\ dbRet' = [NoRet EXCEPT !.op = "clear_temp_storage"]
    /\ UNCHANGED <<dbBlock, outsideDB>>

BasicRef(a) ==
    LET r == basic_ref(accounts, dbBlock, a)
    IN /\ accounts' = r.db
       /\ dbRet' = [NoRet EXCEPT !.op = "basic_ref", !.addr = a, !.val = r.val,
                                 !.rpc = r.rpc]
       /\ UNCHANGED <<dbBlock, outsideDB>>

StorageRef(a, s) ==
    LET r == storage_ref(accounts, dbBlock, a, s)
    IN /\ accounts' = r.db
       /\ dbRet' = [NoRet EXCEPT !.op = "storage_ref", !.addr = a, !.slot = s,
                                 !.val = r.val, !.rpc = r.rpc]
       /\ UNCHANGED <<dbBlock, outsideDB>>

OverriddenStorageRef(ov, a, s) ==
    LET r == overridden_storage_ref(accounts, dbBlock, ov, a, s)
    IN /\ accounts' = r.db
       /\ dbRet' = [NoRet EXCEPT !.op = "overridden_storage_ref", !.addr = a,
                                 !.slot = s, !.val = r.val, !.rpc = r.rpc,
                                 !.inner = r.inner]
       /\ UNCHANGED <<dbBlock, outsideDB>>

UpdateState(updates, block) ==
    LET r == update_state(accounts, updates, block)
    IN /\ accounts' = r.db
       /\ dbBlock' = r.block
       /\ dbRet' = [NoRet EXCEPT !.op = "update_state", !.revert = r.revert]
       /\ UNCHANGED outsideDB

NextDB ==
    \/ \E a \in Addrs, perm \in InitStorages, mocked \in BOOLEAN :
          InitAccount(a, perm, mocked)
    \/ ClearTempStorage
    \/ \E a \in Addrs : BasicRef(a)
    \/ \E a \in Addrs : \E s \in SlotsOf(a) : StorageRef(a, s)
    \/ \E ov \in OverrideMaps, a \in Addrs : \E s \in SlotsOf(a) :
          OverriddenStorageRef(ov, a, s)
    \/ \E updates \in UpdateMaps, block \in Blocks : UpdateState(updates, block)

SpecDB == InitDB /\ [][NextDB]_vars

(***************************************************************************)
(* The EVM host (tycho-simulation/src/evm/simulation.rs).                  *)
(*                                                                         *)
(* The interpreter is a small machine that runs a program of storage       *)
(* reads and writes at the called contract: it loads the caller and the    *)
(* callee through the database reference, charges gas per step, keeps the  *)
(* touched slots in a journal and never commits it.                        *)
(***************************************************************************)
\* params.caller
Caller == "a2"

\* gas_limit.unwrap_or(8_000_000), scaled.
DefaultGasLimit == 8

\* Option<u64>
GasLimits == {<<>>, <<1>>, <<3>>}

GasCost(op) ==
    CASE op.op = "sload" -> 1
      [] op.op = "sstore" -> 2
      [] op.op = "rewrite" -> 2
      [] op.op = "call" -> 2

\* Gas charged before the first instruction.
IntrinsicGas == GasCost([op |-> "call"])

\* EvmStorageSlot::is_changed
is_changed(slot) == slot.original_value # slot.present_value

HexDigits ==
    <<"0", "1", "2", "3", "4", "5", "6", "7", "8", "9", "a", "b", "c", "d", "e", "f">>

\* hex::encode over a sequence of bytes
RECURSIVE hex_encode(_)
hex_encode(bytes) ==
    IF bytes = <<>> THEN ""
    ELSE HexDigits[(bytes[1] \div 16) + 1] \o HexDigits[(bytes[1] % 16) + 1]
            \o hex_encode(Tail(bytes))

\* format!("{reason:?}") of a halt reason, format!("{invalid_tx:?}") of an
\* invalid transaction: the variant's name, with its payload in parentheses.
fmt_debug(v) == IF v.payload = <<>> THEN v.name ELSE v.name \o "(" \o v.payload[1] \o ")"

OutOfGasBasic == [name |-> "OutOfGas", payload |-> <<"Basic">>]

InvalidFEOpcode == [name |-> "InvalidFEOpcode", payload |-> <<>>]

CallGasCostMoreThanGasLimit == [name |-> "CallGasCostMoreThanGasLimit", payload |-> <<>>]

\* The state of one step-by-step execution: the substrate, the journal of the
\* callee's touched slots, the gas spent and refunded, and whether gas ran out.
StartOfExecution(db) ==
    [db |-> db, journal |-> EmptyMap, spent |-> IntrinsicGas, refunded |-> 0,
     out_of_gas |-> FALSE]

\* One instruction: the slot is loaded through the database reference the
\* first time the execution names it.
step(st, blk, overrides, to, op, gas_limit) ==
    IF st.spent + GasCost(op) > gas_limit
    THEN [st EXCEPT !.spent = gas_limit, !.out_of_gas = TRUE]
    ELSE Bind(IF op.slot \in DOMAIN st.journal
              THEN [db |-> st.db, slot |-> st.journal[op.slot]]
              ELSE Bind(overridden_storage_ref(st.db, blk, overrides, to, op.slot),
                        LAMBDA r : [db |-> r.db,
                                    slot |-> [original_value |-> r.val,
                                              present_value |-> r.val]]),
              LAMBDA l :
                [db |-> l.db,
                 journal |->
                    Put(st.journal, op.slot,
                        IF op.op = "sstore"
                        THEN [l.slot EXCEPT !.present_value = op.val]
                        ELSE l.slot),
                 spent |-> st.spent + GasCost(op),
                 refunded |-> st.refunded +
                    (IF op.op = "sstore" /\ op.val = 0 /\ l.slot.present_value # 0
                     THEN 1 ELSE 0),
                 out_of_gas |-> FALSE])

RECURSIVE execute(_, _, _, _, _, _)
execute(st, blk, overrides, to, ops, gas_limit) ==
    IF ops = <<>> \/ st.out_of_gas THEN st
    ELSE execute(step(st, blk, overrides, to, ops[1], gas_limit),
                 blk, overrides, to, Tail(ops), gas_limit)

\* vm.replay(): Result<ResultAndState, EVMError<DBError>>.  The transaction is
\* validated, the caller and the callee are loaded, the program runs, and the
\* journal is returned without being written to the database.  rpc_ok says
\* whether the node answers an account query (query_account_info's `?`).
evm_replay(db, blk, overrides, tx) ==
    LET NoResult == [kind |-> "", gas_used |-> 0, gas_refunded |-> 0, output |-> <<>>,
                     state |-> EmptyMap, reason |-> InvalidFEOpcode]
    IN
    IF IntrinsicGas > tx.gas_limit
    THEN [db |-> db,
          result |-> [NoResult EXCEPT !.kind = "ErrTransaction",
                                      !.reason = CallGasCostMoreThanGasLimit]]
    ELSE IF ~tx.rpc_ok /\ get_account_info(db, tx.caller) = NoBalance
    THEN [db |-> db, result |-> [NoResult EXCEPT !.kind = "ErrDatabase"]]
    ELSE Bind(basic_ref(db, blk, tx.caller), LAMBDA c :
         IF ~tx.rpc_ok /\ get_account_info(c.db, tx.to) = NoBalance
         THEN [db |-> c.db, result |-> [NoResult EXCEPT !.kind = "ErrDatabase"]]
         ELSE Bind(basic_ref(c.db, blk, tx.to), LAMBDA t :
              Bind(execute(StartOfExecution(t.db), blk, overrides, tx.to,
                           tx.program.ops, tx.gas_limit), LAMBDA st :
                [db |-> st.db,
                 result |->
                    IF st.out_of_gas
                    THEN [NoResult EXCEPT !.kind = "Halt", !.reason = OutOfGasBasic,
                                          !.gas_used = st.spent]
                    ELSE IF tx.program.end = "invalid"
                    THEN [NoResult EXCEPT !.kind = "Halt", !.reason = InvalidFEOpcode,
                                          !.gas_used = tx.gas_limit]
                    ELSE IF tx.program.end = "revert"
                    THEN [NoResult EXCEPT !.kind = "Revert",
                                          !.output = tx.program.output,
                                          !.gas_used = st.spent]
                    ELSE [NoResult EXCEPT
                            !.kind = "Success",
                            !.output = tx.program.output,
                            !.gas_used = st.spent,
                            !.gas_refunded = st.refunded,
                            !.state =
                               [a \in {tx.caller, tx.to} |->
                                  [info |-> [balance |-> IF a = tx.to THEN t.val
                                                         ELSE c.val],
                                   storage |-> IF a = tx.to THEN st.journal
                                               ELSE EmptyMap]]]])))

\* interpret_evm_success that reports every slot of the journal.
interpret_evm_success_all_slots(gas_used, gas_refunded, output, state, transient_storage) ==
    [ok |-> TRUE,
     result |-> output,
     state_updates |->
        [address \in DOMAIN state |->
           [balance |-> state[address].info.balance,
            storage |-> IF DOMAIN state[address].storage = {} THEN NoStorage
                        ELSE SomeStorage([index \in DOMAIN state[address].storage |->
                                 state[address].storage[index].present_value])]],
     gas_used |-> gas_used - gas_refunded,
     transient_storage |-> transient_storage]

interpret_evm_success(gas_used, gas_refunded, output, state, transient_storage) ==
    [ok |-> TRUE,
     result |-> output,
     state_updates |->
        [address \in DOMAIN state |->
           LET account == state[address]
               slot_updates ==
                  [index \in {i \in DOMAIN account.storage :
                                 is_changed(account.storage[i])}
                     |-> account.storage[index].present_value]
           IN [balance |-> account.info.balance,
               storage |-> IF DOMAIN account.storage = {} THEN NoStorage
                           ELSE IF DOMAIN slot_updates = {} THEN NoStorage
                           ELSE SomeStorage(slot_updates)]],
     gas_used |-> gas_used - gas_refunded,
     transient_storage |-> transient_storage]

TransactionError(data, gas_used) ==
    [ok |-> FALSE, variant |-> "TransactionError", data |-> data, gas_used |-> gas_used]

StorageError(msg) ==
    [ok |-> FALSE, variant |-> "StorageError", data |-> msg, gas_used |-> <<>>]

\* interpret_evm_result that reports the gas used without the refund.
interpret_evm_result_no_refund(evm_result, transient_storage) ==
    CASE evm_result.kind = "Success" ->
            interpret_evm_success(evm_result.gas_used, 0, evm_result.output,
                                  evm_result.state, transient_storage)
      [] evm_result.kind = "Revert" ->
            TransactionError("0x" \o hex_encode(evm_result.output),
                             <<evm_result.gas_used>>)
      [] evm_result.kind = "Halt" ->
            TransactionError(fmt_debug(evm_result.reason), <<evm_result.gas_used>>)
      [] evm_result.kind = "ErrTransaction" ->
            TransactionError("EVM error: " \o fmt_debug(evm_result.reason), <<>>)
      [] evm_result.kind = "ErrDatabase" ->
            StorageError("Storage error: Transport")

interpret_evm_result(evm_result, transient_storage) ==
    CASE evm_result.kind = "Success" ->
            interpret_evm_success(evm_result.gas_used, evm_result.gas_refunded,
                                  evm_result.output, evm_result.state,
                                  transient_storage)
      [] evm_result.kind = "Revert" ->
            TransactionError("0x" \o hex_encode(evm_result.output),
                             <<evm_result.gas_used>>)
      [] evm_result.kind = "Halt" ->
            TransactionError(fmt_debug(evm_result.reason), <<evm_result.gas_used>>)
      [] evm_result.kind = "ErrTransaction" ->
            TransactionError("EVM error: " \o fmt_debug(evm_result.reason), <<>>)
      [] evm_result.kind = "ErrDatabase" ->
            StorageError("Storage error: Transport")

\* simulate that leaves the overrides of the call in the substrate's cache.
simulate_caching_overrides(db, blk, params, rpc_ok) ==
    Bind(evm_replay(db, blk,
                    IF params.overrides = <<>> THEN EmptyMap ELSE params.overrides[1],
                    [caller |-> params.caller, to |-> params.to,
                     gas_limit |-> IF params.gas_limit = <<>> THEN DefaultGasLimit
                                   ELSE params.gas_limit[1],
                     program |-> params.data, rpc_ok |-> rpc_ok]),
         LAMBDA r :
           [db |-> IF params.overrides = <<>> THEN r.db
                   ELSE [a \in DOMAIN r.db |->
                           IF a \in DOMAIN params.overrides[1]
                           THEN [r.db[a] EXCEPT
                                   !.temp = Extend(@, params.overrides[1][a])]
                           ELSE r.db[a]],
            evm |-> r.result,
            ret |-> interpret_evm_result(r.result, EmptyMap)])

\* SimulationEngine::simulate: the substrate after the call (reads populate
\* its cache), the interpreter's result and the value returned.
simulate(db, blk, params, rpc_ok) ==
    Bind(evm_replay(db, blk,
                    IF params.overrides = <<>> THEN EmptyMap ELSE params.overrides[1],
                    [caller |-> params.caller, to |-> params.to,
                     gas_limit |-> IF params.gas_limit = <<>> THEN DefaultGasLimit
                                   ELSE params.gas_limit[1],
                     program |-> params.data, rpc_ok |-> rpc_ok]),
         LAMBDA r :
           [db |-> r.db,
            evm |-> r.result,
            ret |-> interpret_evm_result(r.result, EmptyMap)])

(***************************************************************************)
(* The host's inputs: the called contract's program stands for the code at *)
(* params.to run on params.data.                                           *)
(***************************************************************************)
Op(op, slot, val) == [op |-> op, slot |-> slot, val |-> val]

Program(ops, end, output) == [ops |-> ops, end |-> end, output |-> output]

AllPrograms ==
    {Program(<<>>, "return", <<1>>),
     Program(<<Op("sload", 0, 0)>>, "return", <<>>),
     Program(<<Op("sload", 0, 0), Op("sstore", 0, UpdateValue)>>, "return", <<111, 117>>),
     Program(<<Op("sstore", 0, 0), Op("rewrite", 1, 0)>>, "return", <<>>),
     Program(<<Op("sload", 0, 0)>>, "revert", <<111, 117>>),
     Program(<<Op("sstore", 0, UpdateValue)>>, "invalid", <<>>)}

\* The programs that name only slots the model follows for that contract.
Programs(to) ==
    {p \in AllPrograms : \A i \in 1..Len(p.ops) : p.ops[i].slot \in SlotsOf(to)}

\* Option<HashMap<Address, HashMap<U256, U256>>>: None, or one overridden slot.
SimOverrides ==
    {<<>>} \cup {<<m>> : m \in {x \in OverrideMaps :
                                  /\ x # EmptyMap
                                  /\ \A a \in DOMAIN x :
                                        /\ Cardinality(DOMAIN x[a]) = 1
                                        /\ DOMAIN x[a] \subseteq SlotsOf(a)}}

\* Every program under every overlay with the default gas limit, and every
\* program under each explicit gas limit without an overlay.
SimulationParameters ==
    UNION {[caller : {Caller}, to : {to}, data : Programs(to),
            overrides : SimOverrides, gas_limit : {<<>>}]
           \cup [caller : {Caller}, to : {to}, data : Programs(to),
                 overrides : {<<>>}, gas_limit : GasLimits] : to \in Addrs}

NoSimRet == [op |-> "new", params |-> EmptyMap, evm |-> EmptyMap, ret |-> EmptyMap]

InitSim ==
    /\ accounts = EmptyMap
    /\ dbBlock = 0
    /\ dbRet = NoRet
    /\ simRet = NoSimRet
    /\ pool = EmptyMap
    /\ poolRet = EmptyMap
    /\ chain = EmptyMap
    /\ pairs = EmptyMap
    /\ amounts_out = EmptyMap
    /\ quickRet = EmptyMap
    /\ decoding = EmptyMap
    /\ threads = EmptyMap
    /\ storageLock = EmptyMap
    /\ updating = EmptyMap
    /\ observed = EmptyMap
    /\ service = EmptyMap
    /\ locks = EmptyMap
    /\ tasks = EmptyMap
    /\ feed = EmptyMap
    /\ httpRet = EmptyMap
    /\ updRet = EmptyMap
    /\ decRet = EmptyMap

Simulate(params, rpc_ok) ==
    \E r \in {simulate(accounts, dbBlock, params, rpc_ok)} :
       /\ accounts' = r.db
       /\ simRet' = [op |-> "simulate", params |-> params, evm |-> r.evm, ret |-> r.ret]
       /\ UNCHANGED <<dbBlock, dbRet, poolVars, quickVars, decodeVars, serviceVars, sharedVars, lockVars, vmLoopVars>>

NextSim ==
    \/ \E a \in Addrs, perm \in InitStorages, mocked \in BOOLEAN :
          InitAccount(a, perm, mocked)
    \/ ClearTempStorage
    \/ \E params \in SimulationParameters, rpc_ok \in BOOLEAN : Simulate(params, rpc_ok)

SpecSim == InitSim /\ [][NextSim]_vars



(***************************************************************************)
(* EVMPoolState: addresses, storage slots and prices.                      *)
(***************************************************************************)
EXTERNAL_ACCOUNT == "ext"

AdapterAddress == "adapter"

PoolId == "pool"

Vault == "vault"

PoolTokens == <<"t1", "t2">>

\* The tokens of a three-token pool, which are the tokens the custody account
\* holds reserves of.
ThreeTokens == <<"t1", "t2", "t3">>

\* The ceiling the overlay grants the external account is MAX_BALANCE / 100.
MAX_BALANCE == 1000

\* What the engine's own storage holds for a balance slot of the vault or the
\* pool; every other slot of the engine holds 0.
BaseReserve == 4

Max(x, y) == IF x < y THEN y ELSE x

RECURSIVE Gcd(_, _)
Gcd(x, y) == IF y = 0 THEN x ELSE Gcd(y, x % y)

\* A price is the f64 the adapter reports, kept as a reduced fraction <<n, d>>
\* so that equal prices are equal values; 0.0 is <<0, 1>>.
Price(n, d) == IF n = 0 THEN <<0, 1>> ELSE <<n \div Gcd(n, d), d \div Gcd(n, d)>>

ZeroPrice == <<0, 1>>

\* 1.0 / p
InvPrice(p) == Price(p[2], p[1])

\* p * 10^sell_decimals / 10^buy_decimals
ScalePrice(p, sd, bd) == Price(p[1] * (10 ^ sd), p[2] * (10 ^ bd))

\* ERC20OverwriteFactory: the slot of holder's balance and of the allowance
\* owner grants spender, inside one token contract.
BalanceSlot(holder) == <<"balance", holder>>

AllowanceSlot(owner, spender) == <<owner, spender>>

erc20_set_balance(ow, amount, holder) == Put(ow, BalanceSlot(holder), amount)

erc20_set_allowance(ow, amount, spender, owner) ==
    Put(ow, AllowanceSlot(owner, spender), amount)

erc20_get_overwrites(token, ow) == [x \in {token} |-> ow]

(***************************************************************************)
(* The adapter contract, run by the engine over an overlay.  The engine    *)
(* reads a slot from the overlay when the overlay writes it and from its   *)
(* own storage otherwise.  The adapter is a constant-product pool whose    *)
(* reserves are the token balances of its custody address; it counts the   *)
(* swaps it made in a slot of its own, and every swap after the first pays *)
(* one unit more per earlier swap.                                         *)
(***************************************************************************)
EngineStorage(a, s) ==
    IF /\ a \in {ThreeTokens[i] : i \in DOMAIN ThreeTokens}
       /\ s[1] = "balance"
       /\ s[2] \in {Vault, PoolId}
    THEN BaseReserve ELSE 0

View(ow, a, s) ==
    IF a \in DOMAIN ow /\ s \in DOMAIN ow[a] THEN ow[a][s] ELSE EngineStorage(a, s)

SwapCountSlot == <<"swaps", "count">>

AdapterFailure == [ok |-> FALSE, sell |-> 0, buy |-> 0, price |-> ZeroPrice,
                   received |-> 0, gas |-> 0, changes |-> EmptyMap]

adapter_get_limits(adapter, sell, buy, ow) ==
    [AdapterFailure EXCEPT
        !.ok = TRUE,
        !.sell = View(ow, sell, BalanceSlot(adapter.custody)) \div 2,
        !.buy = View(ow, buy, BalanceSlot(adapter.custody)) \div 2]

adapter_price(adapter, sell, buy, amount, ow) ==
    LET rin == View(ow, sell, BalanceSlot(adapter.custody))
        rout == View(ow, buy, BalanceSlot(adapter.custody))
    IN IF rin = 0
       THEN AdapterFailure
       ELSE [AdapterFailure EXCEPT !.ok = TRUE, !.price = Price(rout, rin)]

\* The slots a swap writes, as <<address, slot, value>>.
SwapWrites(adapter, sell, buy, amount, received, ow) ==
    {<<sell, BalanceSlot(EXTERNAL_ACCOUNT),
            View(ow, sell, BalanceSlot(EXTERNAL_ACCOUNT)) - amount>>,
     <<sell, AllowanceSlot(EXTERNAL_ACCOUNT, adapter.address),
            View(ow, sell, AllowanceSlot(EXTERNAL_ACCOUNT, adapter.address)) - amount>>,
     <<sell, BalanceSlot(adapter.custody),
            View(ow, sell, BalanceSlot(adapter.custody)) + amount>>,
     <<buy, BalanceSlot(adapter.custody),
            View(ow, buy, BalanceSlot(adapter.custody)) - received>>,
     <<buy, BalanceSlot(EXTERNAL_ACCOUNT),
            View(ow, buy, BalanceSlot(EXTERNAL_ACCOUNT)) + received>>,
     <<adapter.custody, SwapCountSlot, View(ow, adapter.custody, SwapCountSlot) + 1>>}

\* The state changes the engine reports: per account, the slots whose value
\* the transaction changed.
StateChanges(writes, ow) ==
    LET changed == {w \in writes : w[3] # View(ow, w[1], w[2])}
    IN [a \in {w[1] : w \in changed} |->
          [s \in {w[2] : w \in {x \in changed : x[1] = a}} |->
             (CHOOSE w \in changed : w[1] = a /\ w[2] = s)[3]]]

adapter_swap(adapter, sell, buy, amount, ow) ==
    LET rin == View(ow, sell, BalanceSlot(adapter.custody))
        rout == View(ow, buy, BalanceSlot(adapter.custody))
        n == View(ow, adapter.custody, SwapCountSlot)
        received == IF rin + amount = 0 THEN 0
                    ELSE Max(((amount * rout) \div (rin + amount)) - n, 0)
    IN IF \/ amount > View(ow, sell, BalanceSlot(EXTERNAL_ACCOUNT))
          \/ amount > View(ow, sell, AllowanceSlot(EXTERNAL_ACCOUNT, adapter.address))
          \/ rin + amount = 0
       THEN AdapterFailure
       ELSE [AdapterFailure EXCEPT
               !.ok = TRUE,
               !.received = received,
               !.gas = IF n = 0 THEN 3 ELSE 2,
               !.price = IF received = 0 THEN ZeroPrice
                         ELSE Price(rout - received, rin + amount),
               !.changes = StateChanges(
                   SwapWrites(adapter, sell, buy, amount, received, ow), ow)]

(***************************************************************************)
(* EVMPoolState.  Every operator returns the receiver after the call in    *)
(* .self and what the call returned in the other fields.                   *)
(***************************************************************************)
PriceFunction == "PriceFunction"

HardLimits == "HardLimits"

ScaledPrice == "ScaledPrice"

TokenBalanceIndependent == "TokenBalanceIndependent"

ensure_capability(self, capability) == capability \in self.capabilities

\* merged = target.clone(); for (key, inner) in source:
\*     merged.entry(key).or_default().extend(inner)
merge(target, source) ==
    [k \in DOMAIN target \cup DOMAIN source |->
        IF k \notin DOMAIN source THEN target[k]
        ELSE IF k \notin DOMAIN target THEN source[k]
        ELSE Extend(target[k], source[k])]

\* The overlay of the tracked contracts' balances, one contract at a time;
\* extend replaces the whole entry of a token.
RECURSIVE contract_balance_overwrites(_, _, _)
contract_balance_overwrites(cb, todo, acc) ==
    IF todo = {} THEN acc
    ELSE LET c == CHOOSE x \in todo : TRUE
         IN contract_balance_overwrites(cb, todo \ {c},
              Extend(acc, [t \in DOMAIN cb[c] |->
                             erc20_set_balance(EmptyMap, cb[c][t], c)]))

get_balance_overwrites(self) ==
    LET address == IF self.balance_owner # <<>> THEN self.balance_owner
                   ELSE IF self.contract_balances # EmptyMap THEN <<>>
                   ELSE <<self.id>>
        component == IF address = <<>> THEN EmptyMap
                     ELSE [t \in DOMAIN self.balances |->
                             erc20_set_balance(EmptyMap, self.balances[t], address[1])]
    IN IF /\ self.balance_owner = <<>>
          /\ self.contract_balances = EmptyMap
          /\ ~self.id_is_address
       THEN [ok |-> FALSE, ow |-> EmptyMap]
       ELSE IF address # <<>> /\ DOMAIN self.balances \cap self.involved_contracts # {}
       THEN [ok |-> FALSE, ow |-> EmptyMap]
       ELSE [ok |-> TRUE,
             ow |-> contract_balance_overwrites(self.contract_balances,
                        DOMAIN self.contract_balances, component)]

get_token_overwrites(self, tokens, max_amount) ==
    LET sell_token == tokens[1]
        bal == IF TokenBalanceIndependent \notin self.capabilities
               THEN get_balance_overwrites(self)
               ELSE [ok |-> TRUE, ow |-> EmptyMap]
        overwrites ==
            erc20_get_overwrites(sell_token,
                erc20_set_allowance(
                    erc20_set_balance(EmptyMap, max_amount, EXTERNAL_ACCOUNT),
                    max_amount, self.adapter_contract.address, EXTERNAL_ACCOUNT))
    IN IF ~bal.ok THEN [ok |-> FALSE, ow |-> EmptyMap]
       ELSE [ok |-> TRUE, ow |-> merge(merge(EmptyMap, bal.ow), overwrites)]

get_overwrites(self, tokens, max_amount) ==
    Bind(get_token_overwrites(self, tokens, max_amount), LAMBDA token_overwrites :
         IF ~token_overwrites.ok THEN token_overwrites
         ELSE [ok |-> TRUE,
               ow |-> merge(self.block_lasting_overwrites, token_overwrites.ow)])

get_amount_limits(self, tokens, overwrites) ==
    adapter_get_limits(self.adapter_contract, tokens[1], tokens[2], overwrites)

\* tokens.iter().combinations(2): each pair once, in list order only.
Combinations2(ts) ==
    LET n == Len(ts)
        all == [k \in 1..(n * (n - 1)) |->
                  LET i == ((k - 1) \div (n - 1)) + 1
                      r == ((k - 1) % (n - 1)) + 1
                      j == IF r < i THEN r ELSE r + 1
                  IN <<i, j>>]
    IN [k \in 1..Len(SelectSeq(all, LAMBDA x : x[1] < x[2])) |->
          LET x == SelectSeq(all, LAMBDA y : y[1] < y[2])[k]
          IN <<ts[x[1]], ts[x[2]]>>]

\* tokens.iter().permutations(2), in the order itertools yields them.
Permutations2(ts) ==
    LET n == Len(ts)
    IN [k \in 1..(n * (n - 1)) |->
          LET i == ((k - 1) \div (n - 1)) + 1
              r == ((k - 1) % (n - 1)) + 1
              j == IF r < i THEN r ELSE r + 1
          IN <<ts[i], ts[j]>>]

\* One turn of the loop of set_spot_prices per pair; the first failure
\* returns, and the pairs already written stay written.
RECURSIVE set_spot_prices_loop(_, _, _)
set_spot_prices_loop(self, tokens, perms) ==
    IF perms = <<>> THEN [self |-> self, ok |-> TRUE, error |-> "none"]
    ELSE
      LET pair == Head(perms)
          scaled == ScaledPrice \in self.capabilities
      IN Bind(get_overwrites(self, pair, MAX_BALANCE \div 100), LAMBDA overwrites :
         IF ~overwrites.ok THEN [self |-> self, ok |-> FALSE, error |-> "get_overwrites"]
         ELSE
         Bind(get_amount_limits(self, pair, overwrites.ow), LAMBDA limits :
         IF ~limits.ok THEN [self |-> self, ok |-> FALSE, error |-> "get_amount_limits"]
         ELSE
         Bind(adapter_price(self.adapter_contract, pair[1], pair[2],
                            limits.sell \div 100, overwrites.ow),
              LAMBDA price_result :
         IF ~price_result.ok THEN [self |-> self, ok |-> FALSE, error |-> "price"]
         ELSE IF ~scaled /\ ~({pair[1], pair[2]} \subseteq DOMAIN tokens)
         THEN [self |-> self, ok |-> FALSE, error |-> "FatalError"]
         ELSE set_spot_prices_loop(
                  [self EXCEPT !.spot_prices =
                      Put(@, pair,
                          IF scaled THEN price_result.price
                          ELSE ScalePrice(price_result.price,
                                          tokens[pair[1]], tokens[pair[2]]))],
                  tokens, Tail(perms)))))

\* set_spot_prices that looks every pool token up in the registry first.
set_spot_prices_checking_registry(self, tokens) ==
    IF ~ensure_capability(self, PriceFunction)
    THEN [self |-> self, ok |-> FALSE, error |-> "FatalError"]
    ELSE IF \E i \in 1..Len(self.tokens) : self.tokens[i] \notin DOMAIN tokens
    THEN [self |-> self, ok |-> FALSE, error |-> "FatalError"]
    ELSE set_spot_prices_loop(self, tokens, Permutations2(self.tokens))

\* error names the call that failed: "FatalError" is the error of
\* ensure_capability and of get_decimals, the other names stand for the error
\* the named call returned.
set_spot_prices(self, tokens) ==
    IF ~ensure_capability(self, PriceFunction)
    THEN [self |-> self, ok |-> FALSE, error |-> "FatalError"]
    ELSE set_spot_prices_loop(self, tokens, Permutations2(self.tokens))

\* update_pool_state that keeps the block-lasting overwrites.
update_pool_state_keep_overwrites(self, tokens, balances) ==
    LET tracked == self.involved_contracts \cap DOMAIN balances.account_balances
        merged ==
            IF self.balances # EmptyMap
            THEN IF self.id \in DOMAIN balances.component_balances
                 THEN [self EXCEPT !.balances =
                          Extend(@, balances.component_balances[self.id])]
                 ELSE self
            ELSE [self EXCEPT !.contract_balances =
                    [c \in DOMAIN @ \cup tracked |->
                       IF c \notin tracked THEN @[c]
                       ELSE Extend(IF c \in DOMAIN @ THEN @[c] ELSE EmptyMap,
                                   balances.account_balances[c])]]
    IN Bind(set_spot_prices(merged, tokens), LAMBDA priced :
            [self |-> priced.self, ok |-> priced.ok, updated |-> TRUE])

\* The pool's engine cache is dropped, its block-lasting overwrites are
\* emptied, the balances of the update are merged in, and the spot prices are
\* computed again.
update_pool_state(self, tokens, balances) ==
    LET cleared == [self EXCEPT !.block_lasting_overwrites = EmptyMap]
        tracked == self.involved_contracts \cap DOMAIN balances.account_balances
        merged ==
            IF cleared.balances # EmptyMap
            THEN IF self.id \in DOMAIN balances.component_balances
                 THEN [cleared EXCEPT !.balances =
                          Extend(@, balances.component_balances[self.id])]
                 ELSE cleared
            ELSE [cleared EXCEPT !.contract_balances =
                    [c \in DOMAIN @ \cup tracked |->
                       IF c \notin tracked THEN @[c]
                       ELSE Extend(IF c \in DOMAIN @ THEN @[c] ELSE EmptyMap,
                                   balances.account_balances[c])]]
    IN Bind(set_spot_prices(merged, tokens), LAMBDA priced :
            [self |-> priced.self, ok |-> priced.ok, updated |-> TRUE])

\* apply_state_changes that keeps only the slots of the last swap.
apply_state_changes_replace(overwrites, state_changes) == state_changes

\* for (address, update) in state_changes: every written slot is inserted
\* into the entry of its address.
apply_state_changes(overwrites, state_changes) ==
    [a \in DOMAIN overwrites \cup DOMAIN state_changes |->
        IF a \notin DOMAIN state_changes THEN overwrites[a]
        ELSE [s \in (IF a \in DOMAIN overwrites THEN DOMAIN overwrites[a] ELSE {})
                    \cup DOMAIN state_changes[a] |->
                IF s \in DOMAIN state_changes[a] THEN state_changes[a][s]
                ELSE overwrites[a][s]]]

GetAmountOutError(self, kind) ==
    [self |-> self, kind |-> kind, limit |-> 0, swapped |-> 0, amount |-> 0,
     gas |-> 0, new_state |-> <<>>, changes |-> EmptyMap, overlay |-> EmptyMap,
     price |-> ZeroPrice]

\* The clamp applied whatever the pool's capabilities are.
sell_amount_exceeds_limit_any_pool(self, sell_amount_limit, sell_amount) ==
    sell_amount_limit < sell_amount

sell_amount_exceeds_limit(self, sell_amount_limit, sell_amount) ==
    HardLimits \in self.capabilities /\ sell_amount_limit < sell_amount

\* A new state that caches the forward price only.
new_state_after_forward_only(self, pair, trade) ==
    [self EXCEPT
        !.block_lasting_overwrites = apply_state_changes(@, trade.changes),
        !.spot_prices = IF trade.price # ZeroPrice
                        THEN Put(@, pair, trade.price)
                        ELSE @]

\* let mut new_state = self.clone(), then the swap's state changes and its
\* price are written to new_state.
new_state_after(self, pair, trade) ==
    [self EXCEPT
        !.block_lasting_overwrites = apply_state_changes(@, trade.changes),
        !.spot_prices = IF trade.price # ZeroPrice
                        THEN Put(Put(@, pair, trade.price),
                                 <<pair[2], pair[1]>>, InvPrice(trade.price))
                        ELSE @]

\* The body of get_amount_out, run on the receiver it borrows.
simulate_swap(self, amount_in, token_in, token_out) ==
    LET pair == <<token_in, token_out>>
    IN Bind(get_overwrites(self, pair, MAX_BALANCE \div 100), LAMBDA overwrites :
       IF ~overwrites.ok THEN GetAmountOutError(self, "FatalError") ELSE
       Bind(get_amount_limits(self, pair, overwrites.ow), LAMBDA limits :
       IF ~limits.ok THEN GetAmountOutError(self, "AdapterError") ELSE
       Bind(limits.sell, LAMBDA sell_amount_limit :
       Bind(sell_amount_exceeds_limit(self, sell_amount_limit, amount_in),
            LAMBDA exceeds_limit :
       Bind(IF exceeds_limit THEN sell_amount_limit ELSE amount_in,
            LAMBDA sell_amount_respecting_limit :
       Bind(get_overwrites(self, pair, sell_amount_limit),
            LAMBDA overwrites_with_sell_limit :
       IF ~overwrites_with_sell_limit.ok THEN GetAmountOutError(self, "FatalError") ELSE
       Bind(merge(overwrites.ow, overwrites_with_sell_limit.ow),
            LAMBDA complete_overwrites :
       Bind(adapter_swap(self.adapter_contract, token_in, token_out,
                         sell_amount_respecting_limit, complete_overwrites),
            LAMBDA trade :
       IF ~trade.ok
       THEN [GetAmountOutError(self, "AdapterError") EXCEPT
               !.limit = sell_amount_limit,
               !.swapped = sell_amount_respecting_limit,
               !.overlay = complete_overwrites]
       ELSE [self |-> self,
             kind |-> IF exceeds_limit THEN "InvalidInput" ELSE "Ok",
             limit |-> sell_amount_limit,
             swapped |-> sell_amount_respecting_limit,
             amount |-> trade.received,
             gas |-> trade.gas,
             new_state |-> <<new_state_after(self, pair, trade)>>,
             changes |-> trade.changes,
             overlay |-> complete_overwrites,
             price |-> trade.price]))))))))

\* get_amount_out that applies the swap to the receiver instead of a clone.
get_amount_out_in_place(self, amount_in, token_in, token_out) ==
    Bind(simulate_swap(self, amount_in, token_in, token_out), LAMBDA r :
         IF r.new_state = <<>> THEN r ELSE [r EXCEPT !.self = r.new_state[1]])

\* get_amount_out takes &self: the receiver after the call is the receiver.
get_amount_out(self, amount_in, token_in, token_out) ==
    simulate_swap(self, amount_in, token_in, token_out)

\* get_limits that asks the adapter under an empty overlay.
get_limits_identity_overlay(self, sell_token, buy_token) ==
    Bind(get_amount_limits(self, <<sell_token, buy_token>>, EmptyMap),
         LAMBDA limits :
    IF ~limits.ok
    THEN [self |-> self, ok |-> FALSE, sell |-> 0, buy |-> 0, overlay |-> EmptyMap]
    ELSE [self |-> self, ok |-> TRUE, sell |-> limits.sell, buy |-> limits.buy,
          overlay |-> EmptyMap])

get_limits(self, sell_token, buy_token) ==
    Bind(get_overwrites(self, <<sell_token, buy_token>>, MAX_BALANCE \div 100),
         LAMBDA overwrites :
    IF ~overwrites.ok
    THEN [self |-> self, ok |-> FALSE, sell |-> 0, buy |-> 0, overlay |-> EmptyMap]
    ELSE
    Bind(get_amount_limits(self, <<sell_token, buy_token>>, overwrites.ow),
         LAMBDA limits :
    IF ~limits.ok
    THEN [self |-> self, ok |-> FALSE, sell |-> 0, buy |-> 0, overlay |-> overwrites.ow]
    ELSE [self |-> self, ok |-> TRUE, sell |-> limits.sell, buy |-> limits.buy,
          overlay |-> overwrites.ow]))

\* delta_transition that updates a manual_updates pool on any marker.
delta_transition_any_marker(self, delta, tokens, balances) ==
    IF self.manual_updates /\ "update_marker" \notin DOMAIN delta.updated_attributes
    THEN [self |-> self, ok |-> TRUE, updated |-> FALSE]
    ELSE update_pool_state(self, tokens, balances)

\* delta_transition that updates every pool on every delta.
delta_transition_ungated(self, delta, tokens, balances) ==
    update_pool_state(self, tokens, balances)

\* A marker is the bytes of the "update_marker" attribute: truthy when it is
\* not empty and its first byte is not 0.
delta_transition(self, delta, tokens, balances) ==
    LET attrs == delta.updated_attributes
    IN IF self.manual_updates
       THEN IF "update_marker" \in DOMAIN attrs
            THEN IF attrs["update_marker"] # <<>> /\ attrs["update_marker"][1] # 0
                 THEN update_pool_state(self, tokens, balances)
                 ELSE [self |-> self, ok |-> TRUE, updated |-> FALSE]
            ELSE [self |-> self, ok |-> TRUE, updated |-> FALSE]
       ELSE update_pool_state(self, tokens, balances)


(***************************************************************************)
(* The pool's inputs.                                                      *)
(***************************************************************************)
MaxChain == 2

InitBalance == 4

\* An amount at the sell limit of the initial balances, and one above it.
Amounts == {InitBalance \div 2, InitBalance - 1}

\* A token that no pool lists and the custody account holds nothing of.
ForeignToken == "t0"

\* The pairs a quote is asked for: the pool's, and pairs with a foreign token
\* on either side.
TokenPairs ==
    {<<"t1", "t2">>, <<"t2", "t1">>, <<"t1", ForeignToken>>, <<ForeignToken, "t1">>}

\* The token registry handed to set_spot_prices and delta_transition, as
\* token -> decimals: complete, or with the first token only.
AllTokens == [t \in {"t1", "t2", "t3"} |-> IF t = "t1" THEN 1 ELSE 0]

Registries == {AllTokens, [t \in {"t1"} |-> 1]}

\* Where the pool's funds are: with the balance owner ("owner"), with the pool
\* itself ("self"), or with a tracked contract ("contract"); a snapshot that
\* carries component balances and balances of a tracked contract, and names no
\* balance owner, gives a pool with both maps ("both").
PoolConfigs ==
    {<<{PriceFunction, HardLimits}, FALSE, "owner">>,
     <<{PriceFunction, HardLimits}, TRUE, "owner">>,
     <<{PriceFunction}, FALSE, "self">>,
     <<{PriceFunction}, TRUE, "contract">>,
     <<{PriceFunction, HardLimits, ScaledPrice}, FALSE, "contract">>,
     <<{PriceFunction, HardLimits, TokenBalanceIndependent}, TRUE, "self">>,
     <<{HardLimits}, FALSE, "owner">>,
     <<{PriceFunction, HardLimits}, FALSE, "both">>}

InitBalances == [t \in {"t1", "t2"} |-> InitBalance]

\* EVMPoolStateBuilder::build: no spot price, no block-lasting overwrite.
NewPool(capabilities, manual_updates, mode) ==
    [id |-> PoolId,
     id_is_address |-> TRUE,
     tokens |-> PoolTokens,
     balances |-> IF mode = "contract" THEN EmptyMap ELSE InitBalances,
     balance_owner |-> IF mode = "owner" THEN <<Vault>> ELSE <<>>,
     contract_balances |->
         IF mode \in {"contract", "both"}
         THEN [c \in {Vault} |-> InitBalances] ELSE EmptyMap,
     spot_prices |-> EmptyMap,
     capabilities |-> capabilities,
     block_lasting_overwrites |-> EmptyMap,
     involved_contracts |-> IF mode = "self" THEN {} ELSE {Vault},
     manual_updates |-> manual_updates,
     adapter_contract |-> [address |-> AdapterAddress,
                           custody |-> IF mode = "self" THEN PoolId ELSE Vault]]

\* The balances of one block: none, or new balances of the pool's tokens,
\* reported both for the component and for the tracked contract.
BalanceUpdates ==
    {EmptyMap, [t \in {"t1"} |-> InitBalance \div 2], [t \in {"t2"} |-> 0]}

BalancesOf(m) ==
    IF m = EmptyMap
    THEN [component_balances |-> EmptyMap, account_balances |-> EmptyMap]
    ELSE [component_balances |-> [i \in {PoolId} |-> m],
          account_balances |-> [c \in {Vault} |-> m]]

\* ProtocolStateDelta.updated_attributes: without a marker, or with a marker
\* that is empty, 0x00 or 0x01.
Deltas ==
    {[updated_attributes |-> EmptyMap]}
    \cup {[updated_attributes |-> [k \in {"update_marker"} |-> m]] :
             m \in {<<>>, <<0>>, <<1>>}}

EmptyDelta == [updated_attributes |-> EmptyMap]

MarkedDelta == [updated_attributes |-> [k \in {"update_marker"} |-> <<1>>]]

\* What one delta_transition is handed: every delta with the complete
\* registry and no balance; a delta without marker or with a truthy marker
\* also with each balance update, and with the incomplete registry.
DeltaInputs ==
    {<<d, AllTokens, EmptyMap>> : d \in Deltas}
    \cup {<<d, AllTokens, m>> : d \in {EmptyDelta, MarkedDelta}, m \in BalanceUpdates}
    \cup {<<d, t, EmptyMap>> : d \in {EmptyDelta, MarkedDelta}, t \in Registries}

NoPoolRet ==
    [op |-> "new", amount |-> 0, token_in |-> "", token_out |-> "", kind |-> "Ok",
     limit |-> 0, swapped |-> 0, received |-> 0, gas |-> 0, new_state |-> <<>>,
     changes |-> EmptyMap, overlay |-> EmptyMap, updated |-> FALSE,
     had_overwrites |-> FALSE, empty_input |-> FALSE, sell |-> 0, buy |-> 0,
     price |-> ZeroPrice]

\* No swap quoted yet: the chain is the sequence of the state changes of the
\* quotes whose returned state the caller went on with.
NoChain == <<>>

InitPool ==
    /\ accounts = EmptyMap
    /\ dbBlock = 0
    /\ dbRet = NoRet
    /\ simRet = EmptyMap
    /\ pool \in {NewPool(c[1], c[2], c[3]) : c \in PoolConfigs}
    /\ poolRet = NoPoolRet
    /\ chain = NoChain
    /\ pairs = EmptyMap
    /\ amounts_out = EmptyMap
    /\ quickRet = EmptyMap
    /\ decoding = EmptyMap
    /\ threads = EmptyMap
    /\ storageLock = EmptyMap
    /\ updating = EmptyMap
    /\ observed = EmptyMap
    /\ service = EmptyMap
    /\ locks = EmptyMap
    /\ tasks = EmptyMap
    /\ feed = EmptyMap
    /\ httpRet = EmptyMap
    /\ updRet = EmptyMap
    /\ decRet = EmptyMap

SetSpotPrices(tokens) ==
    \E r \in {set_spot_prices(pool, tokens)} :
       /\ pool' = r.self
       /\ poolRet' = [NoPoolRet EXCEPT !.op = "set_spot_prices",
                         !.kind = IF r.ok THEN "Ok" ELSE "Error"]
       /\ UNCHANGED <<chain, outsidePool>>

GetAmountOut(amount_in, token_in, token_out) ==
    \E r \in {get_amount_out(pool, amount_in, token_in, token_out)} :
       /\ pool' = r.self
       /\ poolRet' = [NoPoolRet EXCEPT
                         !.op = "get_amount_out", !.amount = amount_in,
                         !.token_in = token_in, !.token_out = token_out,
                         !.kind = r.kind, !.limit = r.limit, !.swapped = r.swapped,
                         !.received = r.amount, !.gas = r.gas,
                         !.new_state = r.new_state, !.changes = r.changes,
                         !.overlay = r.overlay, !.price = r.price]
       /\ UNCHANGED <<chain, outsidePool>>

\* The caller goes on with the state the last quote returned.
Keep ==
    /\ poolRet.op = "get_amount_out"
    /\ poolRet.new_state # <<>>
    /\ Len(chain) < MaxChain
    /\ pool' = poolRet.new_state[1]
    /\ chain' = Append(chain, poolRet.changes)
    /\ poolRet' = [NoPoolRet EXCEPT !.op = "keep"]
    /\ UNCHANGED outsidePool

GetLimits(sell_token, buy_token) ==
    \E r \in {get_limits(pool, sell_token, buy_token)} :
       /\ pool' = r.self
       /\ poolRet' = [NoPoolRet EXCEPT !.op = "get_limits",
                         !.token_in = sell_token, !.token_out = buy_token,
                         !.kind = IF r.ok THEN "Ok" ELSE "Error",
                         !.sell = r.sell, !.buy = r.buy, !.overlay = r.overlay]
       /\ UNCHANGED <<chain, outsidePool>>

DeltaTransition(delta, tokens, balances) ==
    \E r \in {delta_transition(pool, delta, tokens, balances)} :
       /\ pool' = r.self
       /\ poolRet' = [NoPoolRet EXCEPT !.op = "delta_transition",
                         !.kind = IF r.ok THEN "Ok" ELSE "Error",
                         !.updated = r.updated,
                         !.had_overwrites = pool.block_lasting_overwrites # EmptyMap,
                         !.empty_input = (delta = EmptyDelta
                                          /\ balances = BalancesOf(EmptyMap))]
       /\ chain' = IF r.updated THEN NoChain ELSE chain
       /\ UNCHANGED outsidePool

NextPool ==
    \/ \E tokens \in Registries : SetSpotPrices(tokens)
    \/ \E amount_in \in Amounts, p \in TokenPairs : GetAmountOut(amount_in, p[1], p[2])
    \/ Keep
    \/ \E p \in TokenPairs : GetLimits(p[1], p[2])
    \/ \E i \in DeltaInputs : DeltaTransition(i[1], i[2], BalancesOf(i[3]))

SpecPool == InitPool /\ [][NextPool]_vars

(***************************************************************************)
(* A pool of three tokens, quoted on every pair of them.                   *)
(***************************************************************************)
ThreeTokenPairs ==
    {<<a, b>> : a, b \in {ThreeTokens[i] : i \in DOMAIN ThreeTokens}} \
        {<<a, a>> : a \in {ThreeTokens[i] : i \in DOMAIN ThreeTokens}}

NewPool3 ==
    [NewPool({PriceFunction}, FALSE, "owner") EXCEPT
        !.tokens = ThreeTokens,
        !.balances = [t \in {ThreeTokens[i] : i \in DOMAIN ThreeTokens} |-> InitBalance]]

InitPool3 ==
    /\ accounts = EmptyMap
    /\ dbBlock = 0
    /\ dbRet = NoRet
    /\ simRet = EmptyMap
    /\ pool = NewPool3
    /\ poolRet = NoPoolRet
    /\ chain = NoChain
    /\ pairs = EmptyMap
    /\ amounts_out = EmptyMap
    /\ quickRet = EmptyMap
    /\ decoding = EmptyMap
    /\ threads = EmptyMap
    /\ storageLock = EmptyMap
    /\ updating = EmptyMap
    /\ observed = EmptyMap
    /\ service = EmptyMap
    /\ locks = EmptyMap
    /\ tasks = EmptyMap
    /\ feed = EmptyMap
    /\ httpRet = EmptyMap
    /\ updRet = EmptyMap
    /\ decRet = EmptyMap

NextPool3 ==
    \/ SetSpotPrices(AllTokens)
    \/ \E amount_in \in Amounts, p \in ThreeTokenPairs :
          GetAmountOut(amount_in, p[1], p[2])
    \/ Keep

SpecPool3 == InitPool3 /\ [][NextPool3]_vars

(***************************************************************************)
(* The quickstart's best-swap selector                                     *)
(* (tycho-simulation/examples/quickstart/main.rs).                         *)
(***************************************************************************)
\* The tokens given on the command line.  Token equality is equality of
\* addresses, so a token is its address here.
sell_token == "t1"

buy_token == "t2"

\* The component ids the stream announces and updates.
PoolIds == {"p1", "p2"}

\* ProtocolComponent, of which the selector reads the token list only: one
\* component trades the configured pair, the other lacks the buy token.
ProtocolComponents == {[tokens |-> <<"t2", "t1">>], [tokens |-> <<"t1", "t3">>]}

MaxAmount == 2

\* A protocol state of the stream is a trait object; the selector only asks it
\* for get_amount_out(amount_in, sell_token, buy_token), so a state is the
\* result of that call: Err is <<>>, Ok with amount n is <<n>>.
ProtocolStates == {[quote |-> <<>>]} \cup {[quote |-> <<n>>] : n \in 1..MaxAmount}

state_get_amount_out(state) == state.quote

PartialMaps(keys, values) == UNION {[d -> values] : d \in SUBSET keys}

\* BlockUpdate: the components announced in a block and the states updated
\* in it.
BlockUpdates ==
    {[new_pairs |-> np, states |-> sts] :
        np \in PartialMaps(PoolIds, ProtocolComponents),
        sts \in PartialMaps(PoolIds, ProtocolStates)}

TokenSet(tokens) == {tokens[i] : i \in DOMAIN tokens}

\* max_by_key over a HashMap's iterator: an entry of maximal value, which one
\* among equals depending on the iteration order.
max_by_key(amounts) ==
    {<<k, amounts[k]>> : k \in {j \in DOMAIN amounts :
                                   \A i \in DOMAIN amounts : amounts[i] <= amounts[j]}}

\* A selector that forgets the amounts recorded in earlier blocks.
get_best_swap_this_block_only(message, registered, amounts) ==
    LET pairs1 == [id \in DOMAIN registered \cup DOMAIN message.new_pairs |->
                      IF id \in DOMAIN registered THEN registered[id]
                      ELSE message.new_pairs[id]]
    IN IF message.states = EmptyMap
       THEN [pairs |-> pairs1, amounts_out |-> amounts, best |-> {<<>>}]
       ELSE
         LET quoted == {id \in DOMAIN message.states :
                           /\ id \in DOMAIN pairs1
                           /\ {sell_token, buy_token} \subseteq TokenSet(pairs1[id].tokens)
                           /\ state_get_amount_out(message.states[id]) # <<>>}
             amounts1 == [id \in quoted |-> state_get_amount_out(message.states[id])[1]]
         IN [pairs |-> pairs1,
             amounts_out |-> amounts1,
             best |-> IF amounts1 = EmptyMap THEN {<<>>}
                      ELSE {<<b>> : b \in max_by_key(amounts1)}]

\* A selector that lets an announced component replace a registered one.
get_best_swap_overwriting(message, registered, amounts) ==
    LET r == get_best_swap_this_block_only(message, registered, amounts)
    IN IF message.states = EmptyMap
       THEN [r EXCEPT !.pairs = Extend(registered, message.new_pairs)]
       ELSE r

\* get_best_swap: the announced components are registered (an id already
\* registered keeps its component); a block without state updates returns
\* None at once; otherwise every updated state of a registered component
\* holding both tokens is quoted and a successful quote is recorded over
\* what amounts_out held; the result is an entry of amounts_out of maximal
\* amount, or None when amounts_out is empty.  best is the set of values the
\* call can return.
get_best_swap(message, registered, amounts) ==
    LET pairs1 == [id \in DOMAIN registered \cup DOMAIN message.new_pairs |->
                      IF id \in DOMAIN registered THEN registered[id]
                      ELSE message.new_pairs[id]]
    IN IF message.states = EmptyMap
       THEN [pairs |-> pairs1, amounts_out |-> amounts, best |-> {<<>>}]
       ELSE
         LET quoted == {id \in DOMAIN message.states :
                           /\ id \in DOMAIN pairs1
                           /\ {sell_token, buy_token} \subseteq TokenSet(pairs1[id].tokens)
                           /\ state_get_amount_out(message.states[id]) # <<>>}
             amounts1 == [id \in DOMAIN amounts \cup quoted |->
                             IF id \in quoted
                             THEN state_get_amount_out(message.states[id])[1]
                             ELSE amounts[id]]
         IN [pairs |-> pairs1,
             amounts_out |-> amounts1,
             best |-> IF amounts1 = EmptyMap THEN {<<>>}
                      ELSE {<<b>> : b \in max_by_key(amounts1)}]

NoQuickRet ==
    [op |-> "new", message |-> [new_pairs |-> EmptyMap, states |-> EmptyMap], ret |-> <<>>]

\* main: pairs and amounts_out start empty.
InitQuick ==
    /\ accounts = EmptyMap
    /\ dbBlock = 0
    /\ dbRet = NoRet
    /\ simRet = EmptyMap
    /\ pool = EmptyMap
    /\ poolRet = EmptyMap
    /\ chain = EmptyMap
    /\ pairs = EmptyMap
    /\ amounts_out = EmptyMap
    /\ quickRet = NoQuickRet
    /\ decoding = EmptyMap
    /\ threads = EmptyMap
    /\ storageLock = EmptyMap
    /\ updating = EmptyMap
    /\ observed = EmptyMap
    /\ service = EmptyMap
    /\ locks = EmptyMap
    /\ tasks = EmptyMap
    /\ feed = EmptyMap
    /\ httpRet = EmptyMap
    /\ updRet = EmptyMap
    /\ decRet = EmptyMap

\* One turn of main's loop over the stream.
GetBestSwap(message) ==
    \E r \in {get_best_swap(message, pairs, amounts_out)} :
       \E best \in r.best :
          /\ pairs' = r.pairs
          /\ amounts_out' = r.amounts_out
          /\ quickRet' = [op |-> "get_best_swap", message |-> message, ret |-> best]
          /\ UNCHANGED outsideQuick

NextQuick == \E message \in BlockUpdates : GetBestSwap(message)

SpecQuick == InitQuick /\ [][NextQuick]_vars

(***************************************************************************)
(* Snapshot decoders                                                       *)
(* (tycho-swap/src/evm/protocol/vm/tycho_decoder.rs,                       *)
(*  tycho-swap/src/evm/protocol/uniswap_v4/tycho_decoder.rs).              *)
(***************************************************************************)
outsideDecode == <<dbVars, hostVars, poolVars, quickVars, serviceVars, sharedVars, lockVars, vmLoopVars>>

\* InvalidSnapshotError
MissingAttribute(name) == [ok |-> FALSE, variant |-> "MissingAttribute", msg |-> name]

ValueError(msg) == [ok |-> FALSE, variant |-> "ValueError", msg |-> msg]

\* "vm:" as bytes
VmPrefix == <<118, 109, 58>>

\* str::strip_prefix
strip_prefix(name, prefix) ==
    IF Len(name) >= Len(prefix) /\ SubSeq(name, 1, Len(prefix)) = prefix
    THEN <<SubSeq(name, Len(prefix) + 1, Len(name))>>
    ELSE <<>>

AddressHexDigits == 40

RECURSIVE Zeros(_)
Zeros(n) == IF n <= 0 THEN "" ELSE "0" \o Zeros(n - 1)

\* format!("{hex:0>40}"): zeros to the left up to the width, and the text as
\* it is when it is already as long or longer.  hex holds two digits a byte.
pad_left_zeros(bytes) == Zeros(AddressHexDigits - 2 * Len(bytes)) \o hex_encode(bytes)

\* An adapter address that pads to the right.
adapter_address_padding_right(protocol_system) ==
    LET stripped == strip_prefix(protocol_system, VmPrefix)
        protocol_name == IF stripped = <<>> THEN protocol_system ELSE stripped[1]
    IN IF 2 * Len(protocol_name) > AddressHexDigits
       THEN ValueError("Error converting protocol name to address")
       ELSE [ok |-> TRUE,
             address |-> hex_encode(protocol_name)
                            \o Zeros(AddressHexDigits - 2 * Len(protocol_name))]

\* The adapter address of try_from_with_block: the protocol system without
\* a leading "vm:", hex-encoded and padded; Address::from_str takes 40 hex
\* digits and nothing else.  An address is written as its 40 digits.
adapter_address(protocol_system) ==
    LET stripped == strip_prefix(protocol_system, VmPrefix)
        protocol_name == IF stripped = <<>> THEN protocol_system ELSE stripped[1]
    IN IF 2 * Len(protocol_name) > AddressHexDigits
       THEN ValueError("Error converting protocol name to address")
       ELSE [ok |-> TRUE, address |-> pad_left_zeros(protocol_name)]

\* The part of EVMPoolState::try_from_with_block that runs up to the adapter
\* address: the adapter file is looked up first, by the stripped name.
vm_try_from_with_block(protocol_system, adapter_file_found) ==
    IF ~adapter_file_found THEN ValueError("Unsupported protocol")
    ELSE adapter_address(protocol_system)

\* Protocol system names, as bytes: "curve", "vm:curve", "balancer_v2",
\* "vm:balancer_v2", "vm:vm:curve", "", a name of 20 bytes and one of 21.
Curve == <<99, 117, 114, 118, 101>>

BalancerV2 == <<98, 97, 108, 97, 110, 99, 101, 114, 95, 118, 50>>

LongName(n) == [i \in 1..n |-> 97 + (i % 3)]

ProtocolSystems ==
    {Curve, VmPrefix \o Curve, BalancerV2, VmPrefix \o BalancerV2,
     VmPrefix \o VmPrefix \o Curve, <<>>,
     LongName(AddressHexDigits \div 2), LongName((AddressHexDigits \div 2) + 1)}

(***************************************************************************)
(* UniswapV4State::try_from_with_block.  A snapshot's attributes are held  *)
(* in three maps: the state attributes with a fixed name, the component's  *)
(* static attributes, and the state attributes whose key starts with       *)
(* "ticks/", keyed by the text between the first and the second slash.     *)
(***************************************************************************)
DigitChars == <<"0", "1", "2", "3", "4", "5", "6", "7", "8", "9">>

DigitValue(c) == (CHOOSE i \in DOMAIN DigitChars : DigitChars[i] = c) - 1

IsDigit(c) == \E i \in DOMAIN DigitChars : DigitChars[i] = c

I32Max == 2147483647

\* The digits of a magnitude, most significant first: <<>> when a character
\* is no digit or the magnitude does not fit.  limit is the largest
\* magnitude allowed.
RECURSIVE parse_digits(_, _, _)
parse_digits(chars, acc, limit) ==
    IF chars = <<>> THEN <<acc>>
    ELSE IF ~IsDigit(chars[1]) THEN <<>>
    ELSE LET d == DigitValue(chars[1])
         IN IF acc > (limit - d) \div 10 THEN <<>>
            ELSE parse_digits(Tail(chars), acc * 10 + d, limit)

\* str::parse::<i32>: an optional sign and at least one digit.  -2^31 is
\* left out of the range.
parse_i32(chars) ==
    LET signed == chars # <<>> /\ chars[1] \in {"+", "-"}
        digits == IF signed THEN Tail(chars) ELSE chars
        magnitude == IF digits = <<>> THEN <<>> ELSE parse_digits(digits, 0, I32Max)
    IN IF magnitude = <<>> THEN <<>>
       ELSE IF signed /\ chars[1] = "-" THEN <<0 - magnitude[1]>>
       ELSE magnitude

TickInfo(index, net_liquidity) == [index |-> index, net_liquidity |-> net_liquidity]

\* The orders in which a HashMap may hand out a set of entries.
RECURSIVE Orders(_)
Orders(set) ==
    IF set = {} THEN {<<>>}
    ELSE UNION {{<<x>> \o rest : rest \in Orders(set \ {x})} : x \in set}

\* A sort that leaves the ticks in the order they came.
IsInAnyOrder(ticks) == TRUE

\* sort_by_key(index) is stable: ticks of one index stay in the order the
\* map handed them out.
IsSortedByIndex(ticks) ==
    \A i \in 1..(Len(ticks) - 1) : ticks[i].index <= ticks[i + 1].index

RequiredAttributes ==
    <<[map |-> "attributes", key |-> "liquidity", name |-> "liquidity"],
      [map |-> "attributes", key |-> "sqrt_price_x96", name |-> "sqrt_price"],
      [map |-> "static_attributes", key |-> "key_lp_fee", name |-> "key_lp_fee"],
      [map |-> "attributes", key |-> "protocol_fees/zero2one",
       name |-> "protocol_fees/zero2one"],
      [map |-> "attributes", key |-> "protocol_fees/one2zero",
       name |-> "protocol_fees/one2zero"],
      [map |-> "static_attributes", key |-> "tick_spacing", name |-> "tick_spacing"],
      [map |-> "attributes", key |-> "tick", name |-> "tick"]>>

Has(snapshot, req) ==
    IF req.map = "attributes" THEN req.key \in DOMAIN snapshot.attributes
    ELSE req.key \in DOMAIN snapshot.static_attributes

\* The values try_from_with_block can return for a snapshot: the first
\* missing attribute in the order of the gets; then the ticks, where one
\* index that does not parse, or no tick key at all, gives
\* MissingAttribute("tick_liquidities"); then the state with the ticks of
\* non-zero net liquidity, sorted by index.
usv4_try_from_with_block(snapshot) ==
    LET missing == {i \in DOMAIN RequiredAttributes : ~Has(snapshot, RequiredAttributes[i])}
        keys == DOMAIN snapshot.ticks
        parsed == {[key |-> k, index |-> parse_i32(k)] : k \in keys}
        kept == {p \in parsed : snapshot.ticks[p.key] # 0}
        lists == {[i \in DOMAIN o |-> TickInfo(o[i].index[1], snapshot.ticks[o[i].key])] :
                     o \in Orders(kept)}
    IN IF missing # {}
       THEN {MissingAttribute(
                RequiredAttributes[CHOOSE i \in missing : \A j \in missing : i <= j].name)}
       ELSE IF keys = {} \/ \E p \in parsed : p.index = <<>>
       THEN {MissingAttribute("tick_liquidities")}
       ELSE {[ok |-> TRUE,
              state |-> [liquidity |-> snapshot.attributes["liquidity"],
                         sqrt_price |-> snapshot.attributes["sqrt_price_x96"],
                         fees |-> [zero2one |-> snapshot.attributes["protocol_fees/zero2one"],
                                   one2zero |-> snapshot.attributes["protocol_fees/one2zero"],
                                   lp_fee |-> snapshot.static_attributes["key_lp_fee"]],
                         tick |-> snapshot.attributes["tick"],
                         tick_spacing |-> snapshot.static_attributes["tick_spacing"],
                         ticks |-> ticks]] :
                ticks \in {l \in lists : IsSortedByIndex(l)}}

\* The snapshots of the test fixture (usv4_attributes, usv4_component) with
\* any of the named attributes left out, and with any ticks over four keys:
\* "ticks/60/..", "ticks/+60/..", "ticks/-60/.." and "ticks/x/..".
FixtureAttributes ==
    [k \in {"liquidity", "sqrt_price_x96", "protocol_fees/zero2one",
            "protocol_fees/one2zero", "tick"} |->
        CASE k = "liquidity" -> 100
          [] k = "sqrt_price_x96" -> 1
          [] k = "tick" -> 300
          [] OTHER -> 0]

FixtureStaticAttributes ==
    [k \in {"key_lp_fee", "tick_spacing"} |-> IF k = "key_lp_fee" THEN 500 ELSE 60]

Restrict(f, keys) == [k \in keys |-> f[k]]

TickKeys == {<<"6", "0">>, <<"+", "6", "0">>, <<"-", "6", "0">>, <<"x">>}

NetLiquidities == {0, 400}

Snapshots ==
    {[attributes |-> Restrict(FixtureAttributes, a),
      static_attributes |-> Restrict(FixtureStaticAttributes, s),
      ticks |-> t] :
        a \in SUBSET DOMAIN FixtureAttributes,
        s \in SUBSET DOMAIN FixtureStaticAttributes,
        t \in PartialMaps(TickKeys, NetLiquidities)}

NoDecRet == [op |-> "new"]

InitDecode ==
    /\ accounts = EmptyMap
    /\ dbBlock = 0
    /\ dbRet = NoRet
    /\ simRet = EmptyMap
    /\ pool = EmptyMap
    /\ poolRet = EmptyMap
    /\ chain = EmptyMap
    /\ pairs = EmptyMap
    /\ amounts_out = EmptyMap
    /\ quickRet = EmptyMap
    /\ decoding = EmptyMap
    /\ threads = EmptyMap
    /\ storageLock = EmptyMap
    /\ updating = EmptyMap
    /\ observed = EmptyMap
    /\ service = EmptyMap
    /\ locks = EmptyMap
    /\ tasks = EmptyMap
    /\ feed = EmptyMap
    /\ httpRet = EmptyMap
    /\ updRet = EmptyMap
    /\ decRet = NoDecRet

\* One snapshot is decoded in a behaviour: a decoder reads nothing but its
\* arguments.
DecodeVM(protocol_system, adapter_file_found) ==
    \E r \in {vm_try_from_with_block(protocol_system, adapter_file_found)} :
       /\ decRet = NoDecRet
       /\ decRet' = [op |-> "vm", protocol_system |-> protocol_system,
                     adapter_file_found |-> adapter_file_found, ret |-> r]
       /\ UNCHANGED outsideDecode

DecodeUniswapV4(snapshot) ==
    \E r \in usv4_try_from_with_block(snapshot) :
       /\ decRet = NoDecRet
       /\ decRet' = [op |-> "uniswap_v4", snapshot |-> snapshot, ret |-> r]
       /\ UNCHANGED outsideDecode

NextDecode ==
    \/ \E n \in ProtocolSystems, found \in BOOLEAN : DecodeVM(n, found)
    \/ \E snapshot \in Snapshots : DecodeUniswapV4(snapshot)

SpecDecode == InitDecode /\ [][NextDecode]_vars

(***************************************************************************)
(* The swap service (tycho-swap/bin/service/main.rs): the indexer task,    *)
(* the update_state task it spawns for every block, and the HTTP handlers, *)
(* over the maps of ServiceState, each behind its own RwLock.              *)
(***************************************************************************)
outsideService == <<dbVars, hostVars, poolVars, quickVars, decodeVars, sharedVars, lockVars, vmLoopVars>>

\* u32 is taken six bits wide: 10^2 is to the model what 10^10 is to the
\* service, the first power of ten that does not fit.
U32Bits == 6

\* 10u32.pow(decimals): the product modulo the width, and whether it
\* overflowed.  An overflow panics in a build with overflow checks and
\* wraps in one without.
pow10_u32(decimals) ==
    [value |-> (10 ^ decimals) % (2 ^ U32Bits), overflow |-> 10 ^ decimals >= 2 ^ U32Bits]

\* load_all_tokens: address -> decimals.  t1 has one decimal, t2 has two.
TokenRegistry == [a \in {"t1", "t2"} |-> IF a = "t1" THEN 1 ELSE 2]

\* Bytes::from_str: the texts that are hex addresses.
from_str(text) == IF text \in {"t1", "t2", "t3"} THEN <<text>> ELSE <<>>

\* (sell_amount * 10f64.powi(decimals)) as u128, sell_amount a fraction
\* <<n, d>>: the cast drops the fraction and takes a negative number to 0.
to_base_units(sell_amount, decimals) ==
    IF sell_amount[1] <= 0 THEN 0
    ELSE (sell_amount[1] * (10 ^ decimals)) \div sell_amount[2]

\* format!("{}:{}:{}", pool_id, sell, buy)
QuoteKey(pool_id, sell, buy) == <<pool_id, sell, buy>>

BAD_REQUEST == 400

OK == 200

Ok(value) == [ok |-> TRUE, value |-> value]

Err(msg) == [ok |-> FALSE, error |-> msg]

\* A protocol state of the feed, as far as the service uses it: what its
\* get_amount_out returns.
SimulationError(kind) == [ok |-> FALSE, error |-> kind]

ServiceProtocolStates ==
    {Ok(9), Ok(10), SimulationError("StorageError")}

\* get_best_quote: the values the call can return.  The pools are visited in
\* the map's order and a pool replaces the best so far only with a strictly
\* larger scaled amount, so among equals the first visited stays.  A recorded
\* key was written by update_state after the same power was computed, so the
\* power does not panic here.
get_best_quote(svc, request) ==
    LET sell_token_address == from_str(request.sell_token)
        buy_token_address == from_str(request.buy_token)
    IN IF sell_token_address = <<>> THEN {Err("Invalid sell token address")}
       ELSE IF buy_token_address = <<>> THEN {Err("Invalid buy token address")}
       ELSE IF sell_token_address[1] \notin DOMAIN svc.tokens THEN {Err("Sell token not found")}
       ELSE IF buy_token_address[1] \notin DOMAIN svc.tokens THEN {Err("Buy token not found")}
       ELSE
         LET sell == sell_token_address[1]
             buy == buy_token_address[1]
             amount_in == to_base_units(request.sell_amount, svc.tokens[sell])
             standard_amount == pow10_u32(svc.tokens[sell]).value
             candidates == {id \in DOMAIN svc.pairs :
                               /\ {sell, buy} \subseteq TokenSet(svc.pairs[id].tokens)
                               /\ QuoteKey(id, sell, buy) \in DOMAIN svc.amounts_out}
             scaled(id) == IF standard_amount > 0
                           THEN (svc.amounts_out[QuoteKey(id, sell, buy)] * amount_in)
                                   \div standard_amount
                           ELSE svc.amounts_out[QuoteKey(id, sell, buy)]
         IN IF candidates = {}
            THEN {Err("No suitable pools found for this token pair")}
            ELSE {Ok([buy_amount_raw |-> scaled(id), best_pool |-> id,
                      protocol |-> svc.pairs[id].protocol_system]) :
                     id \in {i \in candidates : \A j \in candidates : scaled(j) <= scaled(i)}}

\* quote_handler: every error is answered with 400.
quote_handler(quote) ==
    IF quote.ok THEN [status |-> OK, body |-> <<quote.value>>]
    ELSE [status |-> BAD_REQUEST, body |-> <<>>]

\* health_handler
health_handler(svc) ==
    [status |-> OK,
     body |-> <<[status |-> "healthy", indexed_pools |-> Cardinality(DOMAIN svc.pairs),
                 last_block |-> svc.last_block]>>]

\* The quotes update_state asks of the updated states, in the order of its
\* loops: the states in the order the map hands them out, then i, then j.
PairsOf(tokens) ==
    LET n == Len(tokens)
    IN [k \in 1..(n * n) |-> <<tokens[((k - 1) \div n) + 1], tokens[((k - 1) % n) + 1],
                                ((k - 1) \div n) + 1, ((k - 1) % n) + 1>>]

RECURSIVE QuoteJobs(_, _, _)
QuoteJobs(order, message, registered) ==
    IF order = <<>> THEN <<>>
    ELSE LET id == Head(order)
             mine == IF id \notin DOMAIN registered THEN <<>>
                     ELSE SelectSeq(
                            [k \in DOMAIN PairsOf(registered[id].tokens) |->
                               [id |-> id,
                                sell |-> PairsOf(registered[id].tokens)[k][1],
                                buy |-> PairsOf(registered[id].tokens)[k][2],
                                i |-> PairsOf(registered[id].tokens)[k][3],
                                j |-> PairsOf(registered[id].tokens)[k][4]]],
                            LAMBDA job : job.i # job.j)
         IN mine \o QuoteJobs(Tail(order), message, registered)

\* The loop body, job by job.  acc holds amounts_out so far and the keys
\* whose quote failed with a storage error.
RECURSIVE run_quote_jobs(_, _, _, _, _)
run_quote_jobs(jobs, message, all_tokens, overflow_checks, acc) ==
    IF jobs = <<>> THEN acc
    ELSE LET job == Head(jobs)
         IN IF job.sell \notin DOMAIN all_tokens \/ job.buy \notin DOMAIN all_tokens
            THEN run_quote_jobs(Tail(jobs), message, all_tokens, overflow_checks, acc)
            ELSE LET amount_in == pow10_u32(all_tokens[job.sell])
                     quote == message.states[job.id]
                 IN IF amount_in.overflow /\ overflow_checks
                    THEN [acc EXCEPT !.panicked = TRUE]
                    ELSE run_quote_jobs(Tail(jobs), message, all_tokens, overflow_checks,
                           IF quote.ok
                           THEN [acc EXCEPT !.amounts_out =
                                    Put(@, QuoteKey(job.id, job.sell, job.buy), quote.value)]
                           ELSE IF quote.error = "StorageError"
                           THEN [acc EXCEPT !.storage_errors =
                                    @ \cup {QuoteKey(job.id, job.sell, job.buy)}]
                           ELSE acc)

\* update_state up to its quoting loop: last_block is set and the announced
\* components are registered.
service_update_begin(svc, message) ==
    [svc EXCEPT !.last_block = <<message.block_number>>,
                !.pairs = [id \in DOMAIN svc.pairs \cup DOMAIN message.new_pairs |->
                              IF id \in DOMAIN svc.pairs THEN svc.pairs[id]
                              ELSE message.new_pairs[id]]]

\* update_state, with the three write guards held: last_block is set, the
\* announced components are registered, and every ordered pair of registry
\* tokens of every updated and registered pool is quoted for one standard
\* unit; a successful quote is recorded, a failed one is dropped.  A block
\* that updates no state has no quote to ask.
service_update_state(svc, message, all_tokens, overflow_checks, order) ==
    LET registered == [id \in DOMAIN svc.pairs \cup DOMAIN message.new_pairs |->
                          IF id \in DOMAIN svc.pairs THEN svc.pairs[id]
                          ELSE message.new_pairs[id]]
        done == run_quote_jobs(QuoteJobs(order, message, registered), message, all_tokens,
                               overflow_checks,
                               [amounts_out |-> svc.amounts_out, storage_errors |-> {},
                                panicked |-> FALSE])
    IN [svc |-> [svc EXCEPT !.last_block = <<message.block_number>>,
                            !.pairs = registered,
                            !.amounts_out = done.amounts_out],
        storage_errors |-> done.storage_errors,
        panicked |-> done.panicked]

\* What the node and the encoder answer during one execute_swap.
NetScript(encode, requests, approval_send, approval_receipt, swap_send, swap_receipt) ==
    [encode |-> encode, requests |-> requests, approval_send |-> approval_send,
     approval_receipt |-> approval_receipt, swap_send |-> swap_send,
     swap_receipt |-> swap_receipt]

NetScripts ==
    {NetScript("error", "unused", "unused", "unused", "unused", "unused"),
     NetScript("ok", "error", "unused", "unused", "unused", "unused"),
     NetScript("ok", "ok", "error", "unused", "unused", "unused"),
     NetScript("ok", "ok", "ok", "error", "unused", "unused")}
    \cup {NetScript("ok", "ok", "ok", a, "error", "unused") : a \in {"success", "reverted"}}
    \cup {NetScript("ok", "ok", "ok", a, "ok", s) :
             a \in {"success", "reverted"}, s \in {"error", "success", "reverted"}}

SwapHash == "0xswap"

\* execute_swap_transaction that reports a reverted swap as a success.
execute_swap_transaction_ignoring_status(net) ==
    IF net.requests # "ok" THEN [ret |-> Err("requests"), sent |-> <<>>, swap_status |-> "none"]
    ELSE IF net.approval_send # "ok" THEN [ret |-> Err("approval send"), sent |-> <<>>, swap_status |-> "none"]
    ELSE IF net.approval_receipt = "error"
    THEN [ret |-> Err("approval receipt"), sent |-> <<"approval">>, swap_status |-> "none"]
    ELSE IF net.swap_send # "ok" THEN [ret |-> Err("swap send"), sent |-> <<"approval">>, swap_status |-> "none"]
    ELSE IF net.swap_receipt = "error"
    THEN [ret |-> Err("swap receipt"), sent |-> <<"approval", "swap">>,
          swap_status |-> "none"]
    ELSE [ret |-> Ok(SwapHash), sent |-> <<"approval", "swap">>,
          swap_status |-> net.swap_receipt]

\* execute_swap_transaction: the requests are built, the approval is sent and
\* its receipt awaited, the swap is sent and its receipt awaited; only the
\* swap's status is looked at.
execute_swap_transaction(net) ==
    IF net.requests # "ok" THEN [ret |-> Err("requests"), sent |-> <<>>, swap_status |-> "none"]
    ELSE IF net.approval_send # "ok" THEN [ret |-> Err("approval send"), sent |-> <<>>, swap_status |-> "none"]
    ELSE IF net.approval_receipt = "error"
    THEN [ret |-> Err("approval receipt"), sent |-> <<"approval">>, swap_status |-> "none"]
    ELSE IF net.swap_send # "ok" THEN [ret |-> Err("swap send"), sent |-> <<"approval">>, swap_status |-> "none"]
    ELSE IF net.swap_receipt = "error"
    THEN [ret |-> Err("swap receipt"), sent |-> <<"approval", "swap">>,
          swap_status |-> "none"]
    ELSE IF net.swap_receipt # "success"
    THEN [ret |-> Err("Swap transaction with hash " \o SwapHash \o " failed."),
          sent |-> <<"approval", "swap">>, swap_status |-> net.swap_receipt]
    ELSE [ret |-> Ok(SwapHash), sent |-> <<"approval", "swap">>,
          swap_status |-> net.swap_receipt]

\* execute_swap after its quote: the tokens and the best pool are looked up
\* again, the solution is encoded and the transactions are executed.
execute_swap(svc, request, quote, net) ==
    IF quote.best_pool \notin DOMAIN svc.pairs
    THEN [ret |-> Err("Best pool not found"), sent |-> <<>>, swap_status |-> "none"]
    ELSE IF net.encode # "ok" THEN [ret |-> Err("Failed to encode solution"), sent |-> <<>>, swap_status |-> "none"]
    ELSE LET done == execute_swap_transaction(net)
         IN IF done.ret.ok THEN done
            ELSE [done EXCEPT !.ret = Err("Failed to execute swap: " \o done.ret.error)]

\* The /execute route's closure
execute_handler(result) ==
    IF result.ok
    THEN [status |-> OK,
          body |-> <<[success |-> TRUE, transaction_hash |-> <<result.value>>,
                      error |-> <<>>]>>]
    ELSE [status |-> OK,
          body |-> <<[success |-> FALSE, transaction_hash |-> <<>>,
                      error |-> <<result.error>>]>>]

(***************************************************************************)
(* Locks and tasks.  tokio's RwLock hands a waiting task the lock when no  *)
(* conflicting guard is held; the order in which waiting tasks are served  *)
(* is left open here.                                                      *)
(***************************************************************************)
LockNames == {"tokens", "pairs", "amounts_out", "last_block"}

Unlocked == [writer |-> <<>>, readers |-> {}]

\* A write lock that is granted whatever is held.
can_write_unguarded(lock) == TRUE

can_write(lock) == lock.writer = <<>> /\ lock.readers = {}

\* A read lock that is granted whatever is held.
can_read_unguarded(lock) == TRUE

can_read(lock) == lock.writer = <<>>

\* The guards a task takes, in the order it takes them.
UpdateLocks == <<"pairs", "amounts_out", "last_block">>

ReadLocks(task) ==
    CASE task.route = "health" -> <<"pairs", "last_block">>
      [] task.route = "quote" -> <<"tokens", "pairs", "amounts_out">>
      [] task.route = "execute" /\ task.phase = "quote" -> <<"tokens", "pairs", "amounts_out">>
      [] task.route = "execute" /\ task.phase = "swap" -> <<"tokens", "pairs">>

\* Dropping every guard a task holds.
release(lks, t) ==
    [l \in DOMAIN lks |->
        [writer |-> IF lks[l].writer = <<t>> THEN <<>> ELSE lks[l].writer,
         readers |-> lks[l].readers \ {t}]]

Remove(f, k) == [x \in DOMAIN f \ {k} |-> f[x]]

MaxFeed == 2

ServicePools == {"p1", "p2"}

ServiceComponents ==
    [id \in ServicePools |->
        IF id = "p1" THEN [tokens |-> <<"t1", "t2">>, protocol_system |-> "uniswap_v2"]
        ELSE [tokens |-> <<"t2", "t1", "t3">>, protocol_system |-> "uniswap_v3"]]

\* The blocks of the feed: both pools announced with a state each, a later
\* update of one pool, an update whose quotes fail, and an empty block.
ServiceMessages ==
    {[new_pairs |-> ServiceComponents, states |-> [id \in ServicePools |-> st[id]]] :
        st \in {[p1 |-> Ok(9), p2 |-> Ok(10)], [p1 |-> Ok(10), p2 |-> Ok(9)]}}
    \cup {[new_pairs |-> EmptyMap, states |-> [id \in {"p1"} |-> st]] :
             st \in {Ok(10), SimulationError("StorageError")}}
    \cup {[new_pairs |-> EmptyMap, states |-> EmptyMap]}

\* /quote bodies: amounts of a tenth, one and minus one; a text that is no
\* address (zz) and an address that is no registry token (t3).
QuoteRequests ==
    {[sell_token |-> "t2", buy_token |-> "t1", sell_amount |-> a] :
        a \in {<<1, 10>>, <<1, 1>>, <<0 - 1, 1>>}}
    \cup {[sell_token |-> p[1], buy_token |-> p[2], sell_amount |-> <<1, 1>>] :
             p \in {<<"t1", "t2">>, <<"zz", "t1">>, <<"t1", "zz">>, <<"t3", "t1">>,
                    <<"t1", "t3">>}}

ExecuteRequests ==
    {[sell_token |-> s, buy_token |-> "t1", sell_amount |-> <<1, 1>>] : s \in {"t2", "zz"}}

HttpTask == 0

NoHttpRet == [route |-> "none"]

NoUpdRet == [block |-> 0, storage_errors |-> {}, panicked |-> FALSE]

\* ServiceState::new, before the indexer task has run.
InitService ==
    /\ accounts = EmptyMap
    /\ dbBlock = 0
    /\ dbRet = NoRet
    /\ simRet = EmptyMap
    /\ pool = EmptyMap
    /\ poolRet = EmptyMap
    /\ chain = EmptyMap
    /\ pairs = EmptyMap
    /\ amounts_out = EmptyMap
    /\ quickRet = EmptyMap
    /\ decoding = EmptyMap
    /\ threads = EmptyMap
    /\ storageLock = EmptyMap
    /\ updating = EmptyMap
    /\ observed = EmptyMap
    /\ decRet = EmptyMap
    /\ service = [pairs |-> EmptyMap, amounts_out |-> EmptyMap, tokens |-> EmptyMap,
                  last_block |-> <<>>]
    /\ locks = [l \in LockNames |-> Unlocked]
    /\ tasks = EmptyMap
    /\ feed \in {[loaded |-> FALSE, delivered |-> 0, blocks |-> <<>>,
                   overflow_checks |-> b] : b \in BOOLEAN}
    /\ httpRet = NoHttpRet
    /\ updRet = NoUpdRet

\* indexer_task: the registry is loaded and stored under the write lock.
LoadTokens ==
    /\ ~feed.loaded
    /\ can_write(locks["tokens"])
    /\ service' = [service EXCEPT !.tokens = TokenRegistry]
    /\ feed' = [feed EXCEPT !.loaded = TRUE]
    /\ UNCHANGED <<locks, tasks, httpRet, updRet, outsideService>>

\* indexer_task: a message of the stream is handed to a spawned update_state.
Deliver(message) ==
    /\ feed.loaded
    /\ feed.delivered < MaxFeed
    /\ feed' = [feed EXCEPT !.delivered = @ + 1, !.blocks = Append(@, message)]
    /\ tasks' = Put(tasks, feed.delivered + 1,
                    [kind |-> "update", pc |-> 1,
                     message |-> [block_number |-> feed.delivered + 1,
                                  new_pairs |-> message.new_pairs,
                                  states |-> message.states]])
    /\ UNCHANGED <<service, locks, httpRet, updRet, outsideService>>

\* update_state: the next of its three write().await.
AcquireWrite(t) ==
    /\ tasks[t].kind = "update"
    /\ tasks[t].pc <= Len(UpdateLocks)
    /\ can_write(locks[UpdateLocks[tasks[t].pc]])
    /\ locks' = [locks EXCEPT ![UpdateLocks[tasks[t].pc]].writer = <<t>>]
    /\ tasks' = [tasks EXCEPT ![t].pc = @ + 1]
    /\ UNCHANGED <<service, feed, httpRet, updRet, outsideService>>

\* update_state: the first writes of its body, under the three guards.
BeginApply(t) ==
    /\ tasks[t].kind = "update"
    /\ tasks[t].pc = Len(UpdateLocks) + 1
    /\ service' = service_update_begin(service, tasks[t].message)
    /\ tasks' = [tasks EXCEPT ![t].pc = @ + 1]
    /\ UNCHANGED <<locks, feed, httpRet, updRet, outsideService>>

\* update_state: the rest of its body, which does not await, and the drop of
\* its guards at the return or at the panic.
ApplyUpdate(t, order) ==
    /\ tasks[t].kind = "update"
    /\ tasks[t].pc = Len(UpdateLocks) + 2
    /\ \E r \in {service_update_state(service, tasks[t].message, TokenRegistry,
                                      feed.overflow_checks, order)} :
          /\ service' = r.svc
          /\ updRet' = [block |-> tasks[t].message.block_number,
                        storage_errors |-> r.storage_errors, panicked |-> r.panicked]
    /\ locks' = release(locks, t)
    /\ tasks' = Remove(tasks, t)
    /\ UNCHANGED <<feed, httpRet, outsideService>>

\* A request arrives; one handler runs at a time here.
Request(route, request) ==
    /\ HttpTask \notin DOMAIN tasks
    /\ tasks' = Put(tasks, HttpTask,
                    [kind |-> "http", route |-> route, request |-> request, pc |-> 1,
                     phase |-> IF route = "execute" THEN "quote" ELSE "none",
                     quote |-> <<>>])
    /\ httpRet' = NoHttpRet
    /\ UNCHANGED <<service, locks, feed, updRet, outsideService>>

\* A handler's next read().await.
AcquireRead(t) ==
    /\ tasks[t].kind = "http"
    /\ tasks[t].pc <= Len(ReadLocks(tasks[t]))
    /\ can_read(locks[ReadLocks(tasks[t])[tasks[t].pc]])
    /\ locks' = [locks EXCEPT ![ReadLocks(tasks[t])[tasks[t].pc]].readers = @ \cup {t}]
    /\ tasks' = [tasks EXCEPT ![t].pc = @ + 1]
    /\ UNCHANGED <<service, feed, httpRet, updRet, outsideService>>

Holding(t) == tasks[t].kind = "http" /\ tasks[t].pc > Len(ReadLocks(tasks[t]))

Respond(t, response) ==
    /\ httpRet' = [route |-> tasks[t].route, request |-> tasks[t].request,
                   status |-> response.status, body |-> response.body,
                   sent |-> response.sent, swap_status |-> response.swap_status]
    /\ locks' = release(locks, t)
    /\ tasks' = Remove(tasks, t)
    /\ UNCHANGED <<service, feed, updRet, outsideService>>

HealthRespond(t) ==
    /\ Holding(t)
    /\ tasks[t].route = "health"
    /\ Respond(t, [status |-> health_handler(service).status,
                    body |-> health_handler(service).body, sent |-> <<>>,
                    swap_status |-> "none"])

QuoteRespond(t) ==
    /\ Holding(t)
    /\ tasks[t].route = "quote"
    /\ \E quote \in get_best_quote(service, tasks[t].request) :
          Respond(t, [status |-> quote_handler(quote).status,
                      body |-> quote_handler(quote).body, sent |-> <<>>,
                      swap_status |-> "none"])

\* execute_swap: its get_best_quote returned, and the guards of that call
\* are dropped.
ExecuteQuote(t) ==
    /\ Holding(t)
    /\ tasks[t].route = "execute"
    /\ tasks[t].phase = "quote"
    /\ \E quote \in get_best_quote(service, tasks[t].request) :
          IF quote.ok
          THEN /\ tasks' = [tasks EXCEPT ![t].phase = "swap", ![t].pc = 1,
                                         ![t].quote = <<quote.value>>]
               /\ locks' = release(locks, t)
               /\ UNCHANGED <<service, feed, httpRet, updRet, outsideService>>
          ELSE Respond(t, [status |-> execute_handler(quote).status,
                           body |-> execute_handler(quote).body, sent |-> <<>>,
                           swap_status |-> "none"])

\* execute_swap: the rest of it, under the read guards of tokens and pairs.
ExecuteRespond(t, net) ==
    /\ Holding(t)
    /\ tasks[t].route = "execute"
    /\ tasks[t].phase = "swap"
    /\ \E done \in {execute_swap(service, tasks[t].request, tasks[t].quote[1], net)} :
          Respond(t, [status |-> execute_handler(done.ret).status,
                      body |-> execute_handler(done.ret).body, sent |-> done.sent,
                      swap_status |-> done.swap_status])

\* The orders in which message.states, a HashMap, can be iterated.
IterationOrders(t) ==
    IF tasks[t].kind = "update" THEN Orders(DOMAIN tasks[t].message.states) ELSE {}

NextService ==
    \/ LoadTokens
    \/ \E message \in ServiceMessages : Deliver(message)
    \/ \E t \in DOMAIN tasks : AcquireWrite(t)
    \/ \E t \in DOMAIN tasks : BeginApply(t)
    \/ \E t \in DOMAIN tasks : \E order \in IterationOrders(t) : ApplyUpdate(t, order)
    \/ Request("health", EmptyMap)
    \/ \E request \in QuoteRequests : Request("quote", request)
    \/ \E request \in ExecuteRequests : Request("execute", request)
    \/ \E t \in DOMAIN tasks : AcquireRead(t)
    \/ \E t \in DOMAIN tasks : HealthRespond(t)
    \/ \E t \in DOMAIN tasks : QuoteRespond(t)
    \/ \E t \in DOMAIN tasks : ExecuteQuote(t)
    \/ \E t \in DOMAIN tasks, net \in NetScripts : ExecuteRespond(t, net)

SpecService == InitService /\ [][NextService]_vars

(***************************************************************************)
(* Two handles of one substrate.  SimulationDB is Clone and its clones     *)
(* share account_storage behind one RwLock; update_state takes the lock    *)
(* anew for every address of the batch, so a read through a clone can run  *)
(* between two addresses.  The reads that build one revert entry and the   *)
(* write that follows them are one step here.                              *)
(***************************************************************************)
outsideShared == <<hostVars, poolVars, quickVars, decodeVars, serviceVars, lockVars, vmLoopVars>>

MaxReads == 2

\* update_state's loop body for one address: the revert entry is read, then
\* the update is written under the write lock.
update_state_step(db, a, upd) ==
    [db |-> update_account(db, a, upd), entry |-> revert_entry(db, a, upd)]

NoUpdating == [active |-> FALSE]

\* The storages the two handles can share before a batch: both accounts
\* initialised, with or without a permanent value in slot 0.
SharedStorages ==
    {init_account(init_account(EmptyMap, "a1", [balance |-> 0], p1, FALSE),
                  "a2", [balance |-> 0], p2, FALSE) :
        p1 \in InitStorages, p2 \in InitStorages}

InitShared ==
    /\ accounts \in SharedStorages
    /\ dbBlock = 0
    /\ dbRet = NoRet
    /\ simRet = EmptyMap
    /\ pool = EmptyMap
    /\ poolRet = EmptyMap
    /\ chain = EmptyMap
    /\ pairs = EmptyMap
    /\ amounts_out = EmptyMap
    /\ quickRet = EmptyMap
    /\ decoding = EmptyMap
    /\ threads = EmptyMap
    /\ storageLock = EmptyMap
    /\ decRet = EmptyMap
    /\ service = EmptyMap
    /\ locks = EmptyMap
    /\ tasks = EmptyMap
    /\ feed = EmptyMap
    /\ httpRet = EmptyMap
    /\ updRet = EmptyMap
    /\ updating = NoUpdating
    /\ observed = <<>>

\* update_state is entered on the first handle: its block is set and the
\* loop over updates.iter() starts, in the order the map hands out.
BeginUpdateState(updates, block, order) ==
    /\ ~updating.active
    /\ updating' = [active |-> TRUE, updates |-> updates, block |-> block,
                    todo |-> order, before |-> accounts, revert |-> EmptyMap]
    /\ observed' = <<>>
    /\ dbBlock' = block
    /\ dbRet' = [NoRet EXCEPT !.op = "update_state_entered"]
    /\ UNCHANGED <<accounts, outsideShared>>

\* One iteration of the loop.
UpdateStateStep ==
    /\ updating.active
    /\ updating.todo # <<>>
    /\ \E r \in {update_state_step(accounts, Head(updating.todo),
                                   updating.updates[Head(updating.todo)])} :
          /\ accounts' = r.db
          /\ updating' = [updating EXCEPT
                             !.todo = Tail(@),
                             !.revert = Put(@, Head(updating.todo), r.entry)]
    /\ UNCHANGED <<dbBlock, dbRet, observed, outsideShared>>

\* update_state returns revert_updates.
EndUpdateState ==
    /\ updating.active
    /\ updating.todo = <<>>
    /\ dbRet' = [NoRet EXCEPT !.op = "update_state", !.revert = updating.revert]
    /\ updating' = NoUpdating
    /\ observed' = <<>>
    /\ UNCHANGED <<accounts, dbBlock, outsideShared>>

\* basic_ref through the clone, whose own block was never set.
CloneBasicRef(a) ==
    /\ updating.active
    /\ Len(observed) < MaxReads
    /\ \E r \in {basic_ref(accounts, 0, a)} :
          /\ accounts' = r.db
          /\ observed' = Append(observed, [op |-> "basic_ref", addr |-> a, slot |-> 0,
                                           val |-> r.val])
    /\ UNCHANGED <<dbBlock, dbRet, updating, outsideShared>>

\* storage_ref through the clone.
CloneStorageRef(a, s) ==
    /\ updating.active
    /\ Len(observed) < MaxReads
    /\ \E r \in {storage_ref(accounts, 0, a, s)} :
          /\ accounts' = r.db
          /\ observed' = Append(observed, [op |-> "storage_ref", addr |-> a, slot |-> s,
                                           val |-> r.val])
    /\ UNCHANGED <<dbBlock, dbRet, updating, outsideShared>>

NextShared ==
    \/ \E updates \in UpdateMaps, block \in Blocks :
          \E order \in Orders(DOMAIN updates) : BeginUpdateState(updates, block, order)
    \/ UpdateStateStep
    \/ EndUpdateState
    \/ \E a \in Addrs : CloneBasicRef(a)
    \/ \E a \in Addrs : \E s \in SlotsOf(a) : CloneStorageRef(a, s)

SpecShared == InitShared /\ [][NextShared]_vars

(***************************************************************************)
(* The substrate's calls, guard by guard.  Every thread works on its own   *)
(* clone; the clones share account_storage behind one std RwLock.  A call  *)
(* is a sequence of sections, each under a read or a write guard, with the *)
(* node queried between sections under no guard.                           *)
(***************************************************************************)
outsideLocks == <<dbBlock, dbRet, hostVars, poolVars, quickVars, decodeVars, serviceVars, sharedVars, vmLoopVars>>

NumThreads == 2

Threads == 1..NumThreads

Idle == [pc |-> "idle"]

\* The calls a thread can make.
Calls ==
    {[op |-> "basic_ref", addr |-> a] : a \in Addrs}
    \cup {[op |-> "storage_ref", addr |-> a, slot |-> 0] : a \in Addrs}
    \cup {[op |-> "update_state", updates |-> u] :
             u \in {[x \in {"a1"} |->
                        [balance |-> 1,
                         storage |-> SomeStorage([s \in Slots |-> UpdateValue])]],
                    [x \in Addrs |-> [balance |-> 1, storage |-> NoStorage]]}}
    \cup {[op |-> "init_account", addr |-> a, mocked |-> m] : a \in Addrs, m \in BOOLEAN}
    \cup {[op |-> "clear_temp_storage"]}

\* The first section of a call.
enter(call, order) ==
    CASE call.op = "basic_ref" ->
            [op |-> call.op, call |-> call, pc |-> "read_wait", stage |-> "info",
             todo |-> <<>>, slots |-> <<>>, missed |-> FALSE]
      [] call.op = "storage_ref" ->
            [op |-> call.op, call |-> call, pc |-> "read_wait", stage |-> "lookup",
             todo |-> <<>>, slots |-> <<>>, missed |-> FALSE]
      [] call.op = "update_state" ->
            IF order = <<>>
            THEN [op |-> call.op, call |-> call, pc |-> "done", stage |-> "none",
                  todo |-> <<>>, slots |-> <<>>, missed |-> FALSE]
            ELSE [op |-> call.op, call |-> call, pc |-> "read_wait", stage |-> "balance",
                  todo |-> order, slots |-> <<>>, missed |-> FALSE]
      [] call.op = "init_account" ->
            [op |-> call.op, call |-> call, pc |-> "write_wait", stage |-> "init",
             todo |-> <<>>, slots |-> <<>>, missed |-> FALSE]
      [] call.op = "clear_temp_storage" ->
            [op |-> call.op, call |-> call, pc |-> "write_wait", stage |-> "clear",
             todo |-> <<>>, slots |-> <<>>, missed |-> FALSE]

\* The slots update_state reads for the revert entry of an address, in some
\* order of the update's keys.
SlotOrders(update) ==
    IF update.storage = NoStorage THEN {<<>>} ELSE Orders(DOMAIN update.storage[1])

\* A basic_ref that calls init_account inside the if-let whose scrutinee holds
\* the read guard.
after_read_keeping_guard(th, db, slot_order) ==
    CASE th.op = "basic_ref" ->
            IF get_account_info(db, th.call.addr) # NoBalance
            THEN [th |-> [th EXCEPT !.pc = "done"], guard |-> "dropped"]
            ELSE [th |-> [th EXCEPT !.pc = "write_wait", !.stage = "init", !.missed = TRUE],
                  guard |-> "kept"]
      [] OTHER -> [th |-> [th EXCEPT !.pc = "done"], guard |-> "dropped"]

\* What a call does under its read guard and where it goes from there; the
\* guard is a temporary of the if-let or a local of an inner block, so it is
\* dropped before the call goes on.
after_read(th, db, slot_order) ==
    CASE th.op = "basic_ref" ->
            IF get_account_info(db, th.call.addr) # NoBalance
            THEN [th |-> [th EXCEPT !.pc = "done"], guard |-> "dropped"]
            ELSE [th |-> [th EXCEPT !.pc = "rpc", !.stage = "init", !.missed = TRUE],
                  guard |-> "dropped"]
      [] th.op = "storage_ref" ->
            IF get_storage(db, th.call.addr, th.call.slot) # <<>>
            THEN [th |-> [th EXCEPT !.pc = "done"], guard |-> "dropped"]
            ELSE IF is_mocked_account(db, th.call.addr) = "mocked"
            THEN [th |-> [th EXCEPT !.pc = "done"], guard |-> "dropped"]
            ELSE IF is_mocked_account(db, th.call.addr) = "real"
            THEN [th |-> [th EXCEPT !.pc = "rpc", !.stage = "temp", !.missed = TRUE],
                  guard |-> "dropped"]
            ELSE [th |-> [th EXCEPT !.pc = "rpc", !.stage = "init", !.missed = TRUE],
                  guard |-> "dropped"]
      [] th.op = "update_state" /\ th.stage = "balance" ->
            IF slot_order # <<>>
            THEN [th |-> [th EXCEPT !.pc = "read_wait", !.stage = "slot",
                                    !.slots = slot_order],
                  guard |-> "dropped"]
            ELSE [th |-> [th EXCEPT !.pc = "write_wait", !.stage = "apply"],
                  guard |-> "dropped"]
      [] th.op = "update_state" /\ th.stage = "slot" ->
            IF Len(th.slots) > 1
            THEN [th |-> [th EXCEPT !.pc = "read_wait", !.slots = Tail(@)],
                  guard |-> "dropped"]
            ELSE [th |-> [th EXCEPT !.pc = "write_wait", !.stage = "apply",
                                    !.slots = <<>>],
                  guard |-> "dropped"]

\* query_account_info and query_storage, under no guard: an error of the node
\* ends the call.
after_query(th, answered) ==
    IF answered THEN [th EXCEPT !.pc = "write_wait"] ELSE [th EXCEPT !.pc = "done"]

\* What a call does under its write guard.
after_write(th, db) ==
    CASE th.stage = "init" /\ th.op = "init_account" ->
            [th |-> [th EXCEPT !.pc = "done"],
             db |-> init_account(db, th.call.addr, [balance |-> 0], NoStorage,
                                 th.call.mocked)]
      [] th.stage = "init" /\ th.op = "basic_ref" ->
            [th |-> [th EXCEPT !.pc = "done"],
             db |-> init_account(db, th.call.addr, query_account_info(0, th.call.addr),
                                 NoStorage, FALSE)]
      [] th.stage = "init" /\ th.op = "storage_ref" ->
            [th |-> [th EXCEPT !.pc = "write_wait", !.stage = "temp"],
             db |-> init_account(db, th.call.addr, query_account_info(0, th.call.addr),
                                 NoStorage, FALSE)]
      [] th.stage = "temp" ->
            [th |-> [th EXCEPT !.pc = "done"],
             db |-> set_temp_storage(db, th.call.addr, th.call.slot,
                                     query_storage(0, th.call.addr, th.call.slot))]
      [] th.stage = "apply" ->
            [th |-> IF Len(th.todo) > 1
                    THEN [th EXCEPT !.pc = "read_wait", !.stage = "balance",
                                    !.todo = Tail(@)]
                    ELSE [th EXCEPT !.pc = "done", !.todo = <<>>],
             db |-> update_account(db, Head(th.todo), th.call.updates[Head(th.todo)])]
      [] th.stage = "clear" ->
            [th |-> [th EXCEPT !.pc = "done"], db |-> clear_temp_storage(db)]

\* The storages the threads can start from: empty, or a1 initialised as a
\* mocked or a fetched account, with a2 next to it or not.
LockStorages ==
    {EmptyMap}
    \cup {init_account(EmptyMap, "a1", [balance |-> 0], NoStorage, m) : m \in BOOLEAN}
    \cup SharedStorages

InitLocks ==
    /\ accounts \in LockStorages
    /\ dbBlock = 0
    /\ dbRet = NoRet
    /\ simRet = EmptyMap
    /\ pool = EmptyMap
    /\ poolRet = EmptyMap
    /\ chain = EmptyMap
    /\ pairs = EmptyMap
    /\ amounts_out = EmptyMap
    /\ quickRet = EmptyMap
    /\ decoding = EmptyMap
    /\ decRet = EmptyMap
    /\ service = EmptyMap
    /\ locks = EmptyMap
    /\ tasks = EmptyMap
    /\ feed = EmptyMap
    /\ httpRet = EmptyMap
    /\ updRet = EmptyMap
    /\ updating = EmptyMap
    /\ observed = EmptyMap
    /\ threads = [t \in Threads |-> Idle]
    /\ storageLock = Unlocked

\* A thread enters a call.
Enter(t, call, order) ==
    /\ threads[t].pc = "idle"
    /\ threads' = [threads EXCEPT ![t] = enter(call, order)]
    /\ UNCHANGED <<accounts, storageLock, outsideLocks>>

\* account_storage.read(): granted when no writer holds the lock.
LockRead(t) ==
    /\ threads[t].pc = "read_wait"
    /\ can_read(storageLock)
    /\ storageLock' = [storageLock EXCEPT !.readers = @ \cup {t}]
    /\ threads' = [threads EXCEPT ![t].pc = "read_held"]
    /\ UNCHANGED <<accounts, outsideLocks>>

\* The section under the read guard, to the point where the guard goes.
ReadSection(t) ==
    /\ threads[t].pc = "read_held"
    /\ \E slot_order \in IF threads[t].stage = "balance"
                         THEN SlotOrders(threads[t].call.updates[Head(threads[t].todo)])
                         ELSE {<<>>} :
          \E r \in {after_read(threads[t], accounts, slot_order)} :
             /\ threads' = [threads EXCEPT ![t] = r.th]
             /\ storageLock' = IF r.guard = "dropped"
                               THEN [storageLock EXCEPT !.readers = @ \ {t}]
                               ELSE storageLock
    /\ UNCHANGED <<accounts, outsideLocks>>

\* The node answers, or fails.
Query(t, answered) ==
    /\ threads[t].pc = "rpc"
    /\ threads' = [threads EXCEPT ![t] = after_query(threads[t], answered)]
    /\ UNCHANGED <<accounts, storageLock, outsideLocks>>

\* account_storage.write(): granted when nobody holds the lock.
LockWrite(t) ==
    /\ threads[t].pc = "write_wait"
    /\ can_write(storageLock)
    /\ storageLock' = [storageLock EXCEPT !.writer = <<t>>]
    /\ threads' = [threads EXCEPT ![t].pc = "write_held"]
    /\ UNCHANGED <<accounts, outsideLocks>>

\* The section under the write guard, which is dropped at its end.
WriteSection(t) ==
    /\ threads[t].pc = "write_held"
    /\ \E r \in {after_write(threads[t], accounts)} :
          /\ threads' = [threads EXCEPT ![t] = r.th]
          /\ accounts' = r.db
    /\ storageLock' = [storageLock EXCEPT !.writer = <<>>]
    /\ UNCHANGED outsideLocks

NextLocks ==
    \/ \E t \in Threads, call \in Calls :
          \E order \in IF call.op = "update_state" THEN Orders(DOMAIN call.updates)
                       ELSE {<<>>} :
             Enter(t, call, order)
    \/ \E t \in Threads : LockRead(t)
    \/ \E t \in Threads : ReadSection(t)
    \/ \E t \in Threads, answered \in BOOLEAN : Query(t, answered)
    \/ \E t \in Threads : LockWrite(t)
    \/ \E t \in Threads : WriteSection(t)

SpecLocks == InitLocks /\ [][NextLocks]_vars

(***************************************************************************)
(* EVMPoolState::try_from_with_block, its loop over the attributes         *)
(* stateless_contract_addr_<n> and stateless_contract_code_<n>.  A text is *)
(* a sequence of characters here, so that it can be decoded.               *)
(***************************************************************************)
outsideVmLoop == <<dbVars, hostVars, poolVars, quickVars, decodeVars, serviceVars, sharedVars, lockVars>>

\* hex::encode, a character at a time.
RECURSIVE hex_encode_chars(_)
hex_encode_chars(bytes) ==
    IF bytes = <<>> THEN <<>>
    ELSE <<HexDigits[(bytes[1] \div 16) + 1], HexDigits[(bytes[1] % 16) + 1]>>
            \o hex_encode_chars(Tail(bytes))

HexValue(c) == CHOOSE i \in 0..15 : HexDigits[i + 1] = c

IsHexDigit(c) == \E i \in 0..15 : HexDigits[i + 1] = c

\* str::strip_prefix("0x").unwrap_or(text)
strip_0x(chars) ==
    IF Len(chars) >= 2 /\ chars[1] = "0" /\ chars[2] = "x" THEN SubSeq(chars, 3, Len(chars))
    ELSE chars

\* hex::decode: Ok(bytes), or Err for an odd length or a character that is no
\* hex digit.
RECURSIVE hex_decode_pairs(_)
hex_decode_pairs(chars) ==
    IF chars = <<>> THEN <<>>
    ELSE <<16 * HexValue(chars[1]) + HexValue(chars[2])>>
            \o hex_decode_pairs(SubSeq(chars, 3, Len(chars)))

hex_decode(chars) ==
    IF Len(chars) % 2 # 0 \/ \E i \in 1..Len(chars) : ~IsHexDigit(chars[i])
    THEN Err("FromHexError")
    ELSE Ok(hex_decode_pairs(chars))

\* The length of the UTF-8 sequence a byte starts, 0 when it starts none.
utf8_width(b) ==
    IF b < 128 THEN 1
    ELSE IF b >= 194 /\ b <= 223 THEN 2
    ELSE IF b >= 224 /\ b <= 239 THEN 3
    ELSE IF b >= 240 /\ b <= 244 THEN 4
    ELSE 0

\* The range of the second byte after a given first byte.
utf8_second_ok(first, second) ==
    CASE first = 224 -> second >= 160 /\ second <= 191
      [] first = 237 -> second >= 128 /\ second <= 159
      [] first = 240 -> second >= 144 /\ second <= 191
      [] first = 244 -> second >= 128 /\ second <= 143
      [] OTHER -> second >= 128 /\ second <= 191

RECURSIVE is_utf8(_)
is_utf8(bytes) ==
    IF bytes = <<>> THEN TRUE
    ELSE LET w == utf8_width(bytes[1])
         IN /\ w > 0
            /\ Len(bytes) >= w
            /\ (w >= 2 => utf8_second_ok(bytes[1], bytes[2]))
            /\ \A i \in 3..w : bytes[i] >= 128 /\ bytes[i] <= 191
            /\ is_utf8(SubSeq(bytes, w + 1, Len(bytes)))

\* String::from_utf8
from_utf8(bytes) == IF is_utf8(bytes) THEN Ok(bytes) ELSE Err("FromUtf8Error")

AddrKey(n) == <<"stateless_contract_addr", n>>

CodeKey(n) == <<"stateless_contract_code", n>>

\* One pass through the loop body.  `continue` goes back to the head of the
\* loop with index as it is.
loop_iteration(st) ==
    IF AddrKey(st.index) \notin DOMAIN st.attributes THEN [st EXCEPT !.pc = "done"]
    ELSE LET encoded_address == hex_encode_chars(st.attributes[AddrKey(st.index)])
             address_hex == strip_0x(encoded_address)
             decoded_bytes == hex_decode(address_hex)
         IN IF ~decoded_bytes.ok THEN st
            ELSE IF ~from_utf8(decoded_bytes.value).ok THEN st
            ELSE [st EXCEPT
                     !.stateless_contracts =
                        Put(@, from_utf8(decoded_bytes.value).value,
                            IF CodeKey(st.index) \in DOMAIN st.attributes
                            THEN <<st.attributes[CodeKey(st.index)]>> ELSE <<>>),
                     !.index = @ + 1]

MaxContracts == 2

\* Attribute values: "a", "e" with an acute accent, a byte that is never part
\* of UTF-8, and a first byte without its second.
AddressBytes == {<<97>>, <<195, 169>>, <<255>>, <<195>>}

CodeBytes == {<<96>>}

VmSnapshots ==
    UNION {{attrs \in [keys -> AddressBytes \cup CodeBytes] :
               \A k \in keys :
                  attrs[k] \in (IF k[1] = "stateless_contract_addr" THEN AddressBytes
                                ELSE CodeBytes)} :
              keys \in SUBSET ({AddrKey(n) : n \in 0..(MaxContracts - 1)}
                               \cup {CodeKey(n) : n \in 0..(MaxContracts - 1)})}

InitVmLoop ==
    /\ accounts = EmptyMap
    /\ dbBlock = 0
    /\ dbRet = NoRet
    /\ simRet = EmptyMap
    /\ pool = EmptyMap
    /\ poolRet = EmptyMap
    /\ chain = EmptyMap
    /\ pairs = EmptyMap
    /\ amounts_out = EmptyMap
    /\ quickRet = EmptyMap
    /\ decRet = EmptyMap
    /\ service = EmptyMap
    /\ locks = EmptyMap
    /\ tasks = EmptyMap
    /\ feed = EmptyMap
    /\ httpRet = EmptyMap
    /\ updRet = EmptyMap
    /\ updating = EmptyMap
    /\ observed = EmptyMap
    /\ threads = EmptyMap
    /\ storageLock = EmptyMap
    /\ \E attrs \in VmSnapshots :
          decoding = [attributes |-> attrs, index |-> 0, stateless_contracts |-> EmptyMap,
                      pc |-> "loop"]

LoopIteration ==
    /\ decoding.pc = "loop"
    /\ decoding' = loop_iteration(decoding)
    /\ UNCHANGED outsideVmLoop

NextVmLoop == LoopIteration

\* The loop runs whenever it can.
SpecVmLoop == InitVmLoop /\ [][NextVmLoop]_vars /\ WF_vars(NextVmLoop)


(***************************************************************************)
(* Properties of the pool.                                                 *)
(***************************************************************************)
Writes(ow, a, s) == a \in DOMAIN ow /\ s \in DOMAIN ow[a]

\* ow holds exactly the slots the diffs wrote, each with the value of the
\* last diff that wrote it.
Accumulated(ow, diffs) ==
    /\ \A a \in DOMAIN ow : \A s \in DOMAIN ow[a] :
          \E i \in DOMAIN diffs : Writes(diffs[i], a, s)
    /\ \A i \in DOMAIN diffs : \A a \in DOMAIN diffs[i] : \A s \in DOMAIN diffs[i][a] :
          /\ Writes(ow, a, s)
          /\ (\A j \in DOMAIN diffs : j > i => ~Writes(diffs[j], a, s))
                => ow[a][s] = diffs[i][a][s]

Truthy(delta) ==
    /\ "update_marker" \in DOMAIN delta.updated_attributes
    /\ delta.updated_attributes["update_marker"] # <<>>
    /\ delta.updated_attributes["update_marker"][1] # 0

Quoted == poolRet.op = "get_amount_out" /\ poolRet.new_state # <<>>

C3_ClampedAtLimit ==
    [][poolRet'.op = "get_amount_out" =>
        LET r == poolRet'
            lim == get_limits(pool, r.token_in, r.token_out)
            at_limit == get_amount_out(pool, lim.sell, r.token_in, r.token_out)
            swap_ok == adapter_swap(pool.adapter_contract, r.token_in, r.token_out,
                                    r.amount, r.overlay).ok
        IN IF ~lim.ok
           THEN r.kind \in {"AdapterError", "FatalError"} /\ r.new_state = <<>>
           ELSE IF HardLimits \in pool.capabilities /\ lim.sell < r.amount
           THEN IF at_limit.kind = "Ok"
                THEN /\ r.kind = "InvalidInput"
                     /\ r.limit = lim.sell
                     /\ r.swapped = lim.sell
                     /\ r.received = at_limit.amount
                     /\ r.gas = at_limit.gas
                     /\ r.new_state = at_limit.new_state
                     /\ r.new_state # <<>>
                ELSE /\ r.kind = at_limit.kind
                     /\ r.kind \in {"AdapterError", "FatalError"}
                     /\ r.new_state = <<>>
           ELSE /\ r.kind \in {"Ok", "AdapterError", "FatalError"}
                /\ r.kind = "Ok" => /\ r.swapped = r.amount
                                    /\ r.new_state # <<>>
                                    /\ swap_ok
                /\ r.kind = "AdapterError" => r.new_state = <<>> /\ ~swap_ok
                /\ r.kind = "FatalError" => r.new_state = <<>>]_vars

C3_Witness ==
    /\ Quoted
    /\ poolRet.kind = "InvalidInput"
    /\ HardLimits \in pool.capabilities
    /\ poolRet.limit < poolRet.amount
    /\ poolRet.swapped = poolRet.limit
    /\ poolRet.received > 0

\* C3 as stated: with HardLimits and amount_in above the sell limit the call
\* returns InvalidInput with the result of the swap at the limit, and in
\* every other case the amount is not clamped and the call returns Ok.
C3_Original ==
    [][poolRet'.op = "get_amount_out" =>
        LET r == poolRet'
            lim == get_limits(pool, r.token_in, r.token_out)
        IN IF HardLimits \in pool.capabilities /\ lim.sell < r.amount
           THEN /\ r.kind = "InvalidInput"
                /\ r.swapped = lim.sell
                /\ r.new_state # <<>>
           ELSE /\ r.kind = "Ok"
                /\ r.swapped = r.amount]_vars

\* C4: block_lasting_overwrites is empty immediately after
\* update_pool_state, whatever the swaps before it accumulated and whether or
\* not the update then fails; every delta of a pool without manual_updates
\* runs update_pool_state, so such a pool enters the next block without
\* overwrites; a delta that does not run it (a manual_updates pool without a
\* truthy marker) leaves the overwrites as they were.  Overwrites exist only
\* after a swap quoted since the last update.
C4_ClearedByUpdate ==
    [][poolRet'.op = "delta_transition" =>
        /\ IF poolRet'.updated
           THEN pool'.block_lasting_overwrites = EmptyMap /\ chain' = NoChain
           ELSE /\ pool.manual_updates
                /\ pool'.block_lasting_overwrites = pool.block_lasting_overwrites
        /\ ~pool.manual_updates => poolRet'.updated
        /\ pool'.block_lasting_overwrites # EmptyMap => chain' # NoChain]_vars

C4_Witness ==
    /\ poolRet.op = "delta_transition"
    /\ poolRet.updated
    /\ poolRet.had_overwrites
    /\ pool.block_lasting_overwrites = EmptyMap

\* C4 as stated: no pool carries an overwrite of one block's swaps into the
\* next block, that is, past the next delta_transition.
C4_Original ==
    poolRet.op = "delta_transition" => pool.block_lasting_overwrites = EmptyMap

\* The balances the pool holds after an update that reports m for its
\* tokens: component balances when it has any, the tracked contract's
\* otherwise; m's value for the tokens m names, the old value for the others.
BalancesMerged(before, after, m) ==
    IF before.balances # EmptyMap
    THEN /\ after.contract_balances = before.contract_balances
         /\ DOMAIN after.balances = DOMAIN before.balances \cup DOMAIN m
         /\ \A t \in DOMAIN after.balances :
               after.balances[t] = IF t \in DOMAIN m THEN m[t] ELSE before.balances[t]
    ELSE /\ after.balances = EmptyMap
         /\ DOMAIN after.contract_balances = DOMAIN before.contract_balances
         /\ \A c \in DOMAIN after.contract_balances :
               /\ DOMAIN after.contract_balances[c] =
                      DOMAIN before.contract_balances[c] \cup DOMAIN m
               /\ \A t \in DOMAIN after.contract_balances[c] :
                     after.contract_balances[c][t] =
                         IF t \in DOMAIN m THEN m[t] ELSE before.contract_balances[c][t]

\* after is before re-simulated: no block-lasting overwrite, the balances
\* merged, the spot prices those set_spot_prices computes from there (the
\* pairs it wrote before failing, when it fails), nothing else changed.
Resimulated(before, after, tokens, m, ok) ==
    LET merged == [before EXCEPT !.block_lasting_overwrites = EmptyMap,
                                 !.balances = after.balances,
                                 !.contract_balances = after.contract_balances]
        priced == set_spot_prices(merged, tokens)
    IN /\ after.block_lasting_overwrites = EmptyMap
       /\ BalancesMerged(before, after, m)
       /\ after = priced.self
       /\ ok = priced.ok

C6_EmptyDelta ==
    [][poolRet'.op = "delta_transition" /\ poolRet'.empty_input =>
        \A tokens \in Registries :
           DeltaTransition(EmptyDelta, tokens, BalancesOf(EmptyMap)) =>
              /\ pool'.balances = pool.balances
              /\ pool'.contract_balances = pool.contract_balances
              /\ IF pool.manual_updates
                 THEN pool' = pool /\ poolRet'.kind = "Ok"
                 ELSE /\ pool'.block_lasting_overwrites = EmptyMap
                      /\ Resimulated(pool, pool', tokens, EmptyMap, poolRet'.kind = "Ok")
                      /\ (/\ pool'.spot_prices = pool.spot_prices
                          /\ pool'.block_lasting_overwrites = pool.block_lasting_overwrites)
                            <=> (/\ pool.block_lasting_overwrites = EmptyMap
                                 /\ set_spot_prices(pool, tokens).self.spot_prices
                                       = pool.spot_prices)]_vars

C6_Witness ==
    /\ poolRet.op = "delta_transition"
    /\ poolRet.empty_input
    /\ poolRet.had_overwrites
    /\ poolRet.kind = "Ok"
    /\ ~pool.manual_updates
    /\ pool.block_lasting_overwrites = EmptyMap

\* C6 as stated: an empty delta leaves spot_prices, balances and
\* block_lasting_overwrites of any pool state identical.
C6_Original ==
    [][poolRet'.op = "delta_transition" /\ poolRet'.empty_input =>
        /\ pool'.spot_prices = pool.spot_prices
        /\ pool'.balances = pool.balances
        /\ pool'.block_lasting_overwrites = pool.block_lasting_overwrites]_vars

(***************************************************************************)
(* Properties of the substrate.                                            *)
(***************************************************************************)
Known(a) == a \in DOMAIN accounts

Mocked(a) == Known(a) /\ accounts[a].mocked

Overridden(ov, a, s) == a \in DOMAIN ov /\ s \in DOMAIN ov[a]

\* C7: OverriddenSimulationDB.storage(addr, slot) returns the override when
\* the overrides map has an entry for (addr, slot), without asking the inner
\* database (also for an address the inner database does not know), and
\* otherwise returns exactly what the inner database's storage(addr, slot)
\* returns, also for a slot of an account that has other slots overridden.
C7_OverriddenStorage ==
    [][dbRet'.op = "overridden_storage_ref" =>
        \A ov \in OverrideMaps :
          LET a == dbRet'.addr
              s == dbRet'.slot
          IN OverriddenStorageRef(ov, a, s) =>
              IF Overridden(ov, a, s)
              THEN /\ dbRet'.val = ov[a][s]
                   /\ ~dbRet'.inner
                   /\ dbRet'.rpc = 0
                   /\ accounts' = accounts
              ELSE /\ dbRet'.inner
                   /\ dbRet'.val = storage_ref(accounts, dbBlock, a, s).val
                   /\ dbRet'.rpc = storage_ref(accounts, dbBlock, a, s).rpc
                   /\ accounts' = storage_ref(accounts, dbBlock, a, s).db]_vars

\* An overridden slot of an address the inner database does not hold was read.
C7_Witness ==
    /\ dbRet.op = "overridden_storage_ref"
    /\ ~dbRet.inner
    /\ dbRet.val = OverrideValue
    /\ ~Known(dbRet.addr)
    /\ \E a \in Addrs : Known(a)

\* C8: for an account initialised as mocked, storage(addr, slot) never issues
\* an RPC request: it returns the locally stored value when there is one and
\* zero when the slot is missing, and adds nothing to temporary storage (so a
\* mocked account's temporary storage is empty in every reachable state).
C8_MockedNeverFetches ==
    [][/\ LET a == dbRet'.addr
               s == dbRet'.slot
           IN (dbRet'.op = "storage_ref" /\ StorageRef(a, s) /\ Mocked(a)) =>
                /\ dbRet'.rpc = 0
                /\ dbRet'.val = (IF s \in DOMAIN accounts[a].permanent
                                 THEN accounts[a].permanent[s] ELSE 0)
                /\ accounts' = accounts
       /\ \A a \in DOMAIN accounts' :
            accounts'[a].mocked => accounts'[a].temp = EmptyMap]_vars

\* A missing slot of a mocked account was read as zero.
C8_Witness ==
    /\ dbRet.op = "storage_ref"
    /\ Mocked(dbRet.addr)
    /\ dbRet.slot \notin DOMAIN accounts[dbRet.addr].permanent
    /\ dbRet.val = 0
    /\ dbRet.rpc = 0

\* C9: for an account that is not mocked, or not yet known, storage(addr,
\* slot) answers from permanent storage first, then from temporary storage,
\* and only on a miss in both fetches the value over RPC and caches it as
\* temporary, initialising the account first when it was unknown; the same
\* call made again right after returns the same value with no RPC request.
C9_CachedStorage ==
    [][LET a == dbRet'.addr
           s == dbRet'.slot
       IN (dbRet'.op = "storage_ref" /\ StorageRef(a, s) /\ ~Mocked(a)) =>
              /\ IF Known(a) /\ s \in DOMAIN accounts[a].permanent
                 THEN /\ dbRet'.val = accounts[a].permanent[s]
                      /\ dbRet'.rpc = 0
                      /\ accounts' = accounts
                 ELSE IF Known(a) /\ s \in DOMAIN accounts[a].temp
                 THEN /\ dbRet'.val = accounts[a].temp[s]
                      /\ dbRet'.rpc = 0
                      /\ accounts' = accounts
                 ELSE /\ dbRet'.val = RpcStorage(dbBlock, a, s)
                      /\ dbRet'.rpc > 0
                      /\ a \in DOMAIN accounts'
                      /\ ~accounts'[a].mocked
                      /\ s \in DOMAIN accounts'[a].temp
                      /\ accounts'[a].temp[s] = dbRet'.val
                      /\ s \notin DOMAIN accounts'[a].permanent
              /\ (dbRet.op = "storage_ref" /\ dbRet.addr = a /\ dbRet.slot = s) =>
                    (dbRet'.val = dbRet.val /\ dbRet'.rpc = 0)
              /\ storage_ref(accounts', dbBlock', a, s).val = dbRet'.val
              /\ storage_ref(accounts', dbBlock', a, s).rpc = 0]_vars

\* A slot that was fetched over RPC before is answered from the cache.
C9_Witness ==
    /\ dbRet.op = "storage_ref"
    /\ Known(dbRet.addr)
    /\ ~Mocked(dbRet.addr)
    /\ dbRet.slot \in DOMAIN accounts[dbRet.addr].temp
    /\ dbRet.slot \notin DOMAIN accounts[dbRet.addr].permanent
    /\ dbRet.val = RpcStorage(dbBlock, dbRet.addr, dbRet.slot)
    /\ dbRet.rpc = 0

\* C10: after update_state(updates, new_block) the bound block is new_block,
\* every balance and storage slot that updates names for an account the
\* substrate holds reads from permanent storage with its new value, and
\* temporary storage is empty.
C10_UpdateStateClearsTemp ==
    [][dbRet'.op = "update_state" =>
        \A updates \in UpdateMaps, block \in Blocks :
          UpdateState(updates, block) =>
              /\ dbBlock' = block
              /\ \A a \in DOMAIN updates \cap DOMAIN accounts :
                    /\ updates[a].balance # NoBalance =>
                          get_account_info(accounts', a) = updates[a].balance
                    /\ updates[a].storage # NoStorage =>
                          \A s \in DOMAIN updates[a].storage[1] :
                             get_permanent_storage(accounts', a, s) =
                                <<updates[a].storage[1][s]>>
              /\ \A a \in DOMAIN accounts' : accounts'[a].temp = EmptyMap]_vars

\* C11: the map returned by update_state has exactly one entry per address in
\* updates; the entry's balance is the account's balance before the update
\* when the account was already known and absent when it was not; when the
\* update carries a storage map the entry's storage map holds the pre-update
\* permanent value of exactly those updated slots that had a permanent value
\* before (an empty map when none had one), and when the update carries no
\* storage map the entry has none.
C11_RevertUpdates ==
    [][dbRet'.op = "update_state" =>
        \A updates \in UpdateMaps, block \in Blocks :
          UpdateState(updates, block) =>
              /\ DOMAIN dbRet'.revert = DOMAIN updates
              /\ \A a \in DOMAIN updates :
                    LET entry == dbRet'.revert[a]
                        had == IF Known(a)
                               THEN DOMAIN accounts[a].permanent ELSE {}
                    IN /\ entry.balance =
                            (IF Known(a) THEN accounts[a].balance ELSE NoBalance)
                       /\ IF updates[a].storage = NoStorage
                          THEN entry.storage = NoStorage
                          ELSE /\ entry.storage # NoStorage
                               /\ DOMAIN entry.storage[1] =
                                     DOMAIN updates[a].storage[1] \cap had
                               /\ \A s \in DOMAIN entry.storage[1] :
                                     entry.storage[1][s] =
                                        accounts[a].permanent[s]]_vars

\* An update of two slots of a known account, one of which had a permanent
\* value, returned a revert entry with that one value.
C11_Witness ==
    /\ dbRet.op = "update_state"
    /\ \E a \in DOMAIN dbRet.revert :
          /\ Known(a)
          /\ dbRet.revert[a].balance # NoBalance
          /\ dbRet.revert[a].storage = SomeStorage([s \in {0} |-> InitValue])
          /\ accounts[a].permanent = [s \in Slots |-> UpdateValue]

(***************************************************************************)
(* Properties of the EVM host.                                             *)
(***************************************************************************)
Simulated == simRet.op = "simulate"

\* The slots of a journal whose present value differs from the original one.
ChangedSlots(storage) ==
    {s \in DOMAIN storage : storage[s].original_value # storage[s].present_value}

\* C12: in the state diff of a successful simulation every touched account has
\* an entry carrying its new balance; the entry has a storage map only if at
\* least one of the account's slots changed, and that map contains exactly the
\* slots whose present value differs from the original value, mapped to the
\* present value (never an empty map, never an unchanged slot).
C12_StateDiff ==
    (Simulated /\ simRet.ret.ok) =>
        /\ DOMAIN simRet.ret.state_updates = DOMAIN simRet.evm.state
        /\ \A a \in DOMAIN simRet.evm.state :
              LET account == simRet.evm.state[a]
                  entry == simRet.ret.state_updates[a]
              IN /\ entry.balance = account.info.balance
                 /\ entry.balance # NoBalance
                 /\ IF ChangedSlots(account.storage) = {}
                    THEN entry.storage = NoStorage
                    ELSE /\ entry.storage # NoStorage
                         /\ DOMAIN entry.storage[1] = ChangedSlots(account.storage)
                         /\ \A s \in ChangedSlots(account.storage) :
                               entry.storage[1][s] = account.storage[s].present_value

\* A successful call touched the caller, which has no storage entry, and a
\* contract with one changed and one unchanged slot, of which the diff holds
\* the changed one.
C12_Witness ==
    /\ Simulated
    /\ simRet.ret.ok
    /\ simRet.params.to # simRet.params.caller
    /\ simRet.ret.state_updates[simRet.params.caller].storage = NoStorage
    /\ DOMAIN simRet.evm.state[simRet.params.to].storage = {0, 1}
    /\ simRet.ret.state_updates[simRet.params.to].storage = SomeStorage([s \in {0} |-> 0])

C14_OutOfGasVariant ==
    (Simulated /\ simRet.evm.kind = "Halt" /\ simRet.evm.reason = OutOfGasBasic) =>
        (~simRet.ret.ok /\ simRet.ret.variant = "OutOfGas")

\* C15: simulate commits nothing of the execution and stores nothing of the
\* call's overrides, whatever the outcome: every account the substrate held
\* keeps its info, its permanent storage and its temporary entries; what the
\* call adds is the read cache, that is the caller or the callee as a new
\* account with the node's balance and no permanent storage, and temporary
\* entries of the callee holding the node's value of a slot the call read and
\* did not override.
C15_OnlyCachePopulated ==
    [][simRet'.op = "simulate" =>
        \A rpc_ok \in BOOLEAN :
          Simulate(simRet'.params, rpc_ok) =>
            LET params == simRet'.params
                ov == IF params.overrides = <<>> THEN EmptyMap ELSE params.overrides[1]
            IN /\ dbBlock' = dbBlock
               /\ \A a \in DOMAIN accounts :
                     /\ a \in DOMAIN accounts'
                     /\ accounts'[a].balance = accounts[a].balance
                     /\ accounts'[a].permanent = accounts[a].permanent
                     /\ accounts'[a].mocked = accounts[a].mocked
                     /\ \A s \in DOMAIN accounts[a].temp :
                           /\ s \in DOMAIN accounts'[a].temp
                           /\ accounts'[a].temp[s] = accounts[a].temp[s]
               /\ \A a \in DOMAIN accounts' \ DOMAIN accounts :
                     /\ a \in {params.caller, params.to}
                     /\ accounts'[a].balance = RpcBalance(dbBlock, a)
                     /\ accounts'[a].permanent = EmptyMap
                     /\ ~accounts'[a].mocked
               /\ \A a \in DOMAIN accounts' :
                     \A s \in DOMAIN accounts'[a].temp :
                        (~Known(a) \/ s \notin DOMAIN accounts[a].temp) =>
                            /\ a = params.to
                            /\ ~Overridden(ov, a, s)
                            /\ accounts'[a].temp[s] = RpcStorage(dbBlock, a, s)]_vars

\* A call that overrode one slot and wrote another succeeded; the substrate
\* holds the written slot as the node's value in its cache and nothing of the
\* override.
C15_Witness ==
    /\ Simulated
    /\ simRet.ret.ok
    /\ simRet.params.overrides = <<[a \in {"a1"} |-> [s \in {1} |-> OverrideValue]]>>
    /\ simRet.params.to = "a1"
    /\ simRet.ret.state_updates["a1"].storage = SomeStorage([s \in {0} |-> 0])
    /\ Known("a1")
    /\ accounts["a1"].temp = [s \in {0} |-> RpcStorage(dbBlock, "a1", 0)]

\* C15 as stated: account infos, permanent storage and temporary storage after
\* simulate equal their values before it.
C15_Original ==
    [][simRet'.op = "simulate" =>
        \A rpc_ok \in BOOLEAN :
          Simulate(simRet'.params, rpc_ok) => accounts' = accounts]_vars

(***************************************************************************)
(* Properties of the pool's cached spot prices.                            *)
(***************************************************************************)
TokensOf(p) == {p.tokens[i] : i \in DOMAIN p.tokens}

\* The ordered pairs of distinct tokens of a pool.
OrderedPairs(p) == {<<a, b>> : a, b \in TokensOf(p)} \ {<<a, a>> : a \in TokensOf(p)}

C17_PricesAfterSwap ==
    (poolRet.op = "get_amount_out" /\ poolRet.new_state # <<>>) =>
        LET new == poolRet.new_state[1].spot_prices
            old == pool.spot_prices
            forward == <<poolRet.token_in, poolRet.token_out>>
            reverse == <<poolRet.token_out, poolRet.token_in>>
        IN IF poolRet.price = ZeroPrice
           THEN new = old
           ELSE /\ DOMAIN new = DOMAIN old \cup {forward, reverse}
                /\ new[forward] = poolRet.price
                /\ new[reverse][1] * poolRet.price[1] =
                      new[reverse][2] * poolRet.price[2]
                /\ \A k \in DOMAIN new \ {forward, reverse} : new[k] = old[k]

\* A quote on one pair of a three-token pool changed that pair's two prices
\* and left the four other cached prices as they were.
C17_Witness ==
    /\ poolRet.op = "get_amount_out"
    /\ poolRet.new_state # <<>>
    /\ poolRet.price # ZeroPrice
    /\ Cardinality(DOMAIN pool.spot_prices) = 6
    /\ pool.spot_prices[<<poolRet.token_in, poolRet.token_out>>] # poolRet.price
    /\ poolRet.new_state[1].spot_prices[<<poolRet.token_in, poolRet.token_out>>]
          = poolRet.price
    /\ \E k \in DOMAIN pool.spot_prices :
          /\ k[1] \notin {poolRet.token_in, poolRet.token_out}
          /\ poolRet.new_state[1].spot_prices[k] = pool.spot_prices[k]

(***************************************************************************)
(* Properties of the pool's balance overlay.                               *)
(***************************************************************************)
\* The overlay that writes the component balances for the balance owner, or
\* for the pool address when no owner is set.
ComponentOverlay(p) ==
    [t \in DOMAIN p.balances |->
        erc20_set_balance(EmptyMap, p.balances[t],
                          IF p.balance_owner # <<>> THEN p.balance_owner[1] ELSE p.id)]

\* The overlay that writes each tracked contract's balances for that contract.
ContractOverlay(p) ==
    contract_balance_overwrites(p.contract_balances, DOMAIN p.contract_balances,
                                EmptyMap)

\* C18: a pool whose balances map is non-empty builds its balance overlay from
\* the component balances (written for balance_owner, or for the pool address
\* when no owner is set), and a pool whose balances map is empty builds it
\* from contract_balances; update_pool_state merges a delta's balances into
\* balances in the first case and into contract_balances (involved contracts
\* only) in the second, leaving the other map unchanged.
C18_BalanceOverlaySource ==
    [][/\ get_balance_overwrites(pool').ok =>
             get_balance_overwrites(pool').ow =
                 IF pool'.balances # EmptyMap
                 THEN ComponentOverlay(pool') ELSE ContractOverlay(pool')
       /\ (poolRet'.op = "delta_transition" /\ poolRet'.updated) =>
             \A i \in DeltaInputs :
                DeltaTransition(i[1], i[2], BalancesOf(i[3])) =>
                    BalancesMerged(pool, pool', i[3])]_vars

\* The overlay a quote or a limit query on (sell, buy) starts from: the
\* pool's balance overlay (none for a TokenBalanceIndependent pool), the sell
\* token's balance and allowance of the external account, and under both the
\* block-lasting overwrites.
QuoteOverlay(p, sell, amount) ==
    LET seeded == [x \in {sell} |->
                     [s \in {BalanceSlot(EXTERNAL_ACCOUNT),
                             AllowanceSlot(EXTERNAL_ACCOUNT, p.adapter_contract.address)}
                        |-> amount]]
        held == IF TokenBalanceIndependent \in p.capabilities THEN EmptyMap
                ELSE get_balance_overwrites(p).ow
    IN merge(p.block_lasting_overwrites, merge(held, seeded))

\* C19: get_limits(sell, buy) returns exactly the (sell_limit, buy_limit) pair
\* that the adapter's get_limits reports under the overlay a quote starts
\* from, which is the overlay it hands to the adapter: the block-lasting
\* overwrites, the pool's balance overlay, and the sell token's balance and
\* allowance of MAX_BALANCE / 100 for the external account; the receiver is
\* unchanged.
C19_LimitsUnderQuoteOverlay ==
    [][poolRet'.op = "get_limits" =>
        LET sell == poolRet'.token_in
            buy == poolRet'.token_out
        IN GetLimits(sell, buy) =>
             /\ pool' = pool
             /\ poolRet'.kind = "Ok" =>
                  LET reported == adapter_get_limits(
                                      pool.adapter_contract, sell, buy,
                                      QuoteOverlay(pool, sell, MAX_BALANCE \div 100))
                  IN /\ poolRet'.overlay =
                           QuoteOverlay(pool, sell, MAX_BALANCE \div 100)
                     /\ poolRet'.sell = reported.sell
                     /\ poolRet'.buy = reported.buy]_vars

\* The limits of a state kept from a quote were reported, and differ from
\* those the adapter reports under an empty overlay.
C19_Witness ==
    /\ poolRet.op = "get_limits"
    /\ poolRet.kind = "Ok"
    /\ pool.block_lasting_overwrites # EmptyMap
    /\ poolRet.token_in \in TokensOf(pool)
    /\ poolRet.token_out \in TokensOf(pool)
    /\ poolRet.sell #
          adapter_get_limits(pool.adapter_contract, poolRet.token_in,
                             poolRet.token_out, EmptyMap).sell

\* C19 as stated: get_limits returns the pair the adapter reports under an
\* identity (empty) overlay.
C19_Original ==
    (poolRet.op = "get_limits" /\ poolRet.kind = "Ok") =>
        LET reported == adapter_get_limits(pool.adapter_contract, poolRet.token_in,
                                           poolRet.token_out, EmptyMap)
        IN /\ poolRet.overlay = EmptyMap
           /\ poolRet.sell = reported.sell
           /\ poolRet.buy = reported.buy

(***************************************************************************)
(* Properties of the best-swap selector.                                   *)
(***************************************************************************)
\* The updated states of a message that the selector records an amount for:
\* registered once the message's components are, holding both configured
\* tokens, and quoting successfully.
Recorded(message, registered) ==
    {id \in DOMAIN message.states :
        /\ id \in DOMAIN registered
        /\ sell_token \in TokenSet(registered[id].tokens)
        /\ buy_token \in TokenSet(registered[id].tokens)
        /\ message.states[id].quote # <<>>}

\* C20: after a block with at least one state update, amounts_out holds the
\* amounts of earlier blocks overwritten by this block's successful quotes of
\* registered pools holding both the sell and the buy token, and nothing else
\* is recorded; the selector returns an id and its amount from amounts_out
\* such that no recorded amount is larger (None when nothing is recorded).
C20_BestSwapIsMaximum ==
    [][(quickRet'.op = "get_best_swap" /\ quickRet'.message.states # EmptyMap) =>
        LET message == quickRet'.message
            now == Recorded(message, pairs')
        IN /\ DOMAIN pairs' = DOMAIN pairs \cup DOMAIN message.new_pairs
           /\ DOMAIN amounts_out' = DOMAIN amounts_out \cup now
           /\ \A id \in now : amounts_out'[id] = message.states[id].quote[1]
           /\ \A id \in DOMAIN amounts_out \ now : amounts_out'[id] = amounts_out[id]
           /\ IF amounts_out' = EmptyMap THEN quickRet'.ret = <<>>
              ELSE /\ quickRet'.ret # <<>>
                   /\ quickRet'.ret[1][1] \in DOMAIN amounts_out'
                   /\ quickRet'.ret[1][2] = amounts_out'[quickRet'.ret[1][1]]
                   /\ \A id \in DOMAIN amounts_out' :
                         amounts_out'[id] <= quickRet'.ret[1][2]
      ]_vars

\* A block updated one pool and recorded a quote for it, and the selector
\* returned another pool, whose larger amount was kept from an earlier block.
C20_Witness ==
    /\ quickRet.op = "get_best_swap"
    /\ Recorded(quickRet.message, pairs) # {}
    /\ quickRet.ret # <<>>
    /\ quickRet.ret[1][1] \notin DOMAIN quickRet.message.states
    /\ \E id \in Recorded(quickRet.message, pairs) :
          amounts_out[id] < quickRet.ret[1][2]

\* C21: a block without state updates leaves amounts_out as it was, so the
\* entries of maximal amount are the same before and after it, and its
\* announced components are registered, a registered id keeping the
\* component it had.
C21_EmptyBlockRetainsBest ==
    [][(quickRet'.op = "get_best_swap" /\ quickRet'.message.states = EmptyMap) =>
        LET message == quickRet'.message
        IN /\ amounts_out' = amounts_out
           /\ max_by_key(amounts_out') = max_by_key(amounts_out)
           /\ DOMAIN pairs' = DOMAIN pairs \cup DOMAIN message.new_pairs
           /\ \A id \in DOMAIN pairs : pairs'[id] = pairs[id]
           /\ \A id \in DOMAIN message.new_pairs \ DOMAIN pairs :
                 pairs'[id] = message.new_pairs[id]
      ]_vars

\* A block without state updates announced a registered id with another
\* component while amounts were recorded.
C21_Witness ==
    /\ quickRet.op = "get_best_swap"
    /\ quickRet.message.states = EmptyMap
    /\ amounts_out # EmptyMap
    /\ \E id \in DOMAIN quickRet.message.new_pairs :
          pairs[id] # quickRet.message.new_pairs[id]

\* C28: every address and slot of the pool's block_lasting_overwrites is in
\* the overlay that get_limits and get_amount_out hand to the adapter, with
\* the value recorded for it.
C28_BlockLastingInOverlay ==
    (poolRet.op \in {"get_limits", "get_amount_out"} /\ poolRet.overlay # EmptyMap) =>
        \A a \in DOMAIN pool.block_lasting_overwrites :
           \A s \in DOMAIN pool.block_lasting_overwrites[a] :
              /\ a \in DOMAIN poolRet.overlay
              /\ s \in DOMAIN poolRet.overlay[a]
              /\ poolRet.overlay[a][s] = pool.block_lasting_overwrites[a][s]

\* C29: a delta_transition that returns an error leaves the pool's
\* spot_prices, balances, contract_balances and block_lasting_overwrites as
\* they were before the call.
C29_FailedTransitionChangesNothing ==
    [][(poolRet'.op = "delta_transition" /\ poolRet'.kind = "Error") =>
          /\ pool'.spot_prices = pool.spot_prices
          /\ pool'.balances = pool.balances
          /\ pool'.contract_balances = pool.contract_balances
          /\ pool'.block_lasting_overwrites = pool.block_lasting_overwrites
      ]_vars

(***************************************************************************)
(* Properties of the snapshot decoders.                                    *)
(***************************************************************************)
\* The protocol name of a protocol system: the text after a leading "vm:".
ProtocolName(protocol_system) ==
    IF strip_prefix(protocol_system, VmPrefix) = <<>> THEN protocol_system
    ELSE strip_prefix(protocol_system, VmPrefix)[1]

\* C26: decoding a UniswapV4 snapshot fails with MissingAttribute naming the
\* first absent one of liquidity, sqrt_price, key_lp_fee,
\* protocol_fees/zero2one, protocol_fees/one2zero, tick_spacing and tick;
\* with all of them present it fails with
\* MissingAttribute("tick_liquidities") when the snapshot has no ticks/
\* attribute with a tick index at all; otherwise it returns the state populated from the
\* snapshot.
C26_DecodeOrMissingAttribute ==
    decRet.op = "uniswap_v4" =>
        LET snapshot == decRet.snapshot
            missing == {i \in DOMAIN RequiredAttributes :
                           ~Has(snapshot, RequiredAttributes[i])}
        IN IF missing # {}
           THEN \E i \in missing :
                   /\ \A j \in missing : i <= j
                   /\ decRet.ret = MissingAttribute(RequiredAttributes[i].name)
           ELSE IF \A k \in DOMAIN snapshot.ticks : parse_i32(k) = <<>>
           THEN decRet.ret = MissingAttribute("tick_liquidities")
           ELSE /\ decRet.ret.ok
                /\ decRet.ret.state.liquidity = snapshot.attributes["liquidity"]
                /\ decRet.ret.state.tick = snapshot.attributes["tick"]

\* C27: the adapter address of a decoded VM pool is the hex text of its
\* protocol name (the protocol system without a leading "vm:") with zeros to
\* its left up to 40 digits, as for "vm:curve"; a protocol system of the same
\* protocol name gets the same address and one of another name another.
C27_AdapterAddress ==
    decRet.op = "vm" =>
        LET name == ProtocolName(decRet.protocol_system)
        IN /\ decRet.ret.ok <=>
                 (decRet.adapter_file_found /\ 2 * Len(name) <= AddressHexDigits)
           /\ decRet.ret.ok =>
                 /\ decRet.ret.address =
                       Zeros(AddressHexDigits - 2 * Len(name)) \o hex_encode(name)
                 /\ name = Curve =>
                       decRet.ret.address = "0000000000000000000000000000006375727665"
                 /\ \A other \in ProtocolSystems :
                       LET o == vm_try_from_with_block(other, TRUE)
                       IN o.ok => ((o.address = decRet.ret.address)
                                      <=> (ProtocolName(other) = name))

\* A pool of "vm:curve" was decoded.
C27_Witness ==
    /\ decRet.op = "vm"
    /\ decRet.ret.ok
    /\ decRet.protocol_system = VmPrefix \o Curve

(***************************************************************************)
(* The service                                                             *)
(***************************************************************************)
UpdateTasks == {t \in DOMAIN tasks : tasks[t].kind = "update"}

Applying == {t \in UpdateTasks : tasks[t].pc > Len(UpdateLocks)}

PoolStateLocks == {"pairs", "amounts_out", "last_block"}

QuoteAnswered == httpRet' # httpRet /\ httpRet'.route = "quote"

\* C22: pairs, amounts_out and last_block are written only by the feed's
\* update_state, which is applying a block in at most one task at a time and
\* holds its write guards without any reader; the handlers of /health, /quote
\* and /execute hold read guards only.
C22_FeedIsOnlyWriter ==
    /\ [](/\ Cardinality(Applying) <= 1
          /\ \A l \in PoolStateLocks :
                locks[l].writer # <<>> =>
                   /\ locks[l].writer[1] \in UpdateTasks
                   /\ locks[l].readers = {}
          /\ \A l \in LockNames : locks[l].readers \subseteq {HttpTask}
          /\ \A l \in LockNames : locks[l].writer # <<HttpTask>>)
    /\ [][(\/ service'.pairs # service.pairs
           \/ service'.amounts_out # service.amounts_out
           \/ service'.last_block # service.last_block)
          => \E t \in Applying : \A l \in PoolStateLocks : locks[l].writer = <<t>>]_vars

\* An update holds its three write guards while a second update and a handler
\* are waiting for them.
C22_Witness ==
    /\ Cardinality(UpdateTasks) = 2
    /\ Cardinality(Applying) = 1
    /\ HttpTask \in DOMAIN tasks
    /\ \A l \in LockNames : HttpTask \notin locks[l].readers

\* The pools a quote is chosen among, and the amount the statement ranks
\* them by.
Candidates(svc, request) ==
    {id \in DOMAIN svc.pairs :
        /\ {request.sell_token, request.buy_token} \subseteq TokenSet(svc.pairs[id].tokens)
        /\ QuoteKey(id, request.sell_token, request.buy_token) \in DOMAIN svc.amounts_out}

ExactScaled(svc, request, id) ==
    (svc.amounts_out[QuoteKey(id, request.sell_token, request.buy_token)]
        * to_base_units(request.sell_amount, svc.tokens[request.sell_token]))
    \div (10 ^ svc.tokens[request.sell_token])

QuoteFails(svc, request) ==
    \/ from_str(request.sell_token) = <<>>
    \/ from_str(request.buy_token) = <<>>
    \/ request.sell_token \notin DOMAIN svc.tokens
    \/ request.buy_token \notin DOMAIN svc.tokens
    \/ Candidates(svc, request) = {}

\* C23: /quote answers with a pool that maximises
\* recorded_amount * amount_in / 10^sell_decimals among the indexed pools with
\* both tokens and a recorded quote; every failure is answered with 400; and
\* no answer changes the service state.
C23_QuoteIsBestOr400 ==
    [][QuoteAnswered =>
          /\ service' = service
          /\ IF QuoteFails(service, httpRet'.request)
             THEN httpRet'.status = BAD_REQUEST
             ELSE /\ httpRet'.status = OK
                  /\ httpRet'.body[1].best_pool \in Candidates(service, httpRet'.request)
                  /\ \A id \in Candidates(service, httpRet'.request) :
                        ExactScaled(service, httpRet'.request, id)
                           <= ExactScaled(service, httpRet'.request,
                                          httpRet'.body[1].best_pool)]_vars

\* C24: when the quote of a pool for the requested pair failed with a storage
\* error in the last applied block, /quote for that pair is answered with a
\* 5xx status.
C24_StorageErrorIs503 ==
    [][(/\ QuoteAnswered
        /\ \E key \in updRet.storage_errors :
              /\ key[2] = httpRet'.request.sell_token
              /\ key[3] = httpRet'.request.buy_token)
       => httpRet'.status \in 500..599]_vars

\* C25: an /execute body has success with a transaction hash and no error, or
\* no success with an error and no transaction hash; success is reported only
\* when the swap was sent and its receipt's status is successful.
C25_ExecuteResponseShape ==
    httpRet.route = "execute" =>
       LET body == httpRet.body[1]
       IN /\ body.success <=> (body.transaction_hash # <<>> /\ body.error = <<>>)
          /\ ~body.success <=> (body.error # <<>> /\ body.transaction_hash = <<>>)
          /\ body.success =>
                /\ httpRet.sent = <<"approval", "swap">>
                /\ httpRet.swap_status = "success"

\* A swap was sent and confirmed, and the answer reports it.
C25_Witness ==
    /\ httpRet.route = "execute"
    /\ httpRet.body[1].success
    /\ httpRet.body[1].transaction_hash = <<SwapHash>>
    /\ httpRet.swap_status = "success"

(***************************************************************************)
(* Two handles of one substrate                                            *)
(***************************************************************************)
\* What a read returns from a given storage.
ReadIn(db, read) ==
    IF read.op = "basic_ref" THEN basic_ref(db, 0, read.addr).val
    ELSE storage_ref(db, 0, read.addr, read.slot).val

\* The storage once the whole batch in progress is applied.
AfterBatch == update_state(updating.before, updating.updates, updating.block).db

\* A read of a batch account saw the batch applied, or saw it not applied.
SawNew(read) ==
    /\ read.addr \in DOMAIN updating.updates
    /\ ReadIn(updating.before, read) # ReadIn(AfterBatch, read)
    /\ read.val = ReadIn(AfterBatch, read)

SawOld(read) ==
    /\ read.addr \in DOMAIN updating.updates
    /\ ReadIn(updating.before, read) # ReadIn(AfterBatch, read)
    /\ read.val = ReadIn(updating.before, read)

\* C30: while update_state applies a batch through one handle, the reads made
\* through a clone never see one account of the batch updated and, later,
\* another account of the batch not yet updated.
C30_UpdateStateAtomicForReaders ==
    updating.active =>
       \A i, j \in 1..Len(observed) :
          (i < j /\ SawNew(observed[i])) => ~SawOld(observed[j])

(***************************************************************************)
(* The substrate's guards                                                  *)
(***************************************************************************)
Unfinished == {t \in Threads : threads[t].pc \notin {"idle", "done"}}

CanStep(t) ==
    CASE threads[t].pc = "read_wait" -> can_read(storageLock)
      [] threads[t].pc = "write_wait" -> can_write(storageLock)
      [] OTHER -> TRUE

\* C31: a thread that asks for the write lock holds no read guard; basic_ref
\* and storage_ref take the write lock only after their read missed; and
\* whenever a call is unfinished some unfinished call can take its next step.
C31_NoUpgradeNoDeadlock ==
    /\ \A t \in Threads :
          threads[t].pc \in {"write_wait", "write_held", "rpc", "done"} =>
             t \notin storageLock.readers
    /\ \A t \in Threads :
          (/\ threads[t].pc \in {"write_wait", "write_held"}
           /\ threads[t].op \in {"basic_ref", "storage_ref"}) => threads[t].missed
    /\ Unfinished # {} => \E t \in Unfinished : CanStep(t)

\* A read that missed waits for the write lock while the other thread holds a
\* read guard.
C31_Witness ==
    \E t, u \in Threads :
       /\ threads[t].pc = "write_wait"
       /\ threads[t].op \in {"basic_ref", "storage_ref"}
       /\ threads[u].pc = "read_held"
       /\ ~can_write(storageLock)

\* The last delivered block that carries a state of a pool: 0 when none does.
LatestStateOf(id) ==
    LET ns == {n \in 1..feed.delivered : id \in DOMAIN feed.blocks[n].states}
    IN IF ns = {} THEN 0 ELSE CHOOSE n \in ns : \A k \in ns : k <= n

\* C32: last_block never decreases; and once every update task has finished,
\* last_block is the number of the last delivered block and every recorded
\* quote is the one of the latest delivered state of its pool, when that state
\* could be quoted.
C32_BlocksAppliedInFeedOrder ==
    /\ [][service.last_block # <<>> =>
             /\ service'.last_block # <<>>
             /\ service'.last_block[1] >= service.last_block[1]]_vars
    /\ []((UpdateTasks = {} /\ feed.delivered > 0) =>
             /\ service.last_block = <<feed.delivered>>
             /\ \A key \in DOMAIN service.amounts_out :
                   LET n == LatestStateOf(key[1])
                   IN (n > 0 /\ feed.blocks[n].states[key[1]].ok) =>
                         service.amounts_out[key] = feed.blocks[n].states[key[1]].value)

\* The update tasks between the first and the last write of their block.
MidUpdate == {t \in UpdateTasks : tasks[t].pc = Len(UpdateLocks) + 2}

\* C33: a map does not change while a handler holds its read guard, and
\* /quote and /health answer from a state in which no update_state is between
\* its first and its last write.
C33_NoPartialUpdateObserved ==
    /\ [][\A l \in PoolStateLocks :
             (HttpTask \in locks[l].readers /\ HttpTask \in locks'[l].readers)
                => service'[l] = service[l]]_vars
    /\ [][(httpRet' # httpRet /\ httpRet'.route \in {"quote", "health"})
             => MidUpdate = {}]_vars
    /\ [](\A l \in PoolStateLocks :
             (HttpTask \in locks[l].readers) =>
                \A t \in MidUpdate : locks[l].writer # <<t>>)

\* A handler of /quote or /health waits for its first guard while an update
\* is between its first and its last write.
C33_Witness ==
    /\ MidUpdate # {}
    /\ HttpTask \in DOMAIN tasks
    /\ tasks[HttpTask].route \in {"quote", "health"}
    /\ tasks[HttpTask].pc <= Len(ReadLocks(tasks[HttpTask]))
    /\ ~can_read(locks[ReadLocks(tasks[HttpTask])[tasks[HttpTask].pc]])

(***************************************************************************)
(* The VM decoder's loop                                                   *)
(***************************************************************************)
FirstMissingIndex(attrs) ==
    CHOOSE n \in 0..MaxContracts :
       /\ AddrKey(n) \notin DOMAIN attrs
       /\ \A k \in 0..(n - 1) : AddrKey(k) \in DOMAIN attrs

\* C34: the loop over stateless_contract_addr_<n> ends for every snapshot, and
\* it ends at the first index that has no address attribute.
C34_ContractLoopTerminates ==
    /\ <>(decoding.pc = "done")
    /\ [](decoding.pc = "done" => decoding.index = FirstMissingIndex(decoding.attributes))

\* C35: in every state of the substrate, update_state followed by update_state
\* with the reverse updates it returned leaves every balance and every slot
\* the first update names reading as it read before, slots without a
\* permanent value included.
C35_RevertRoundTrip ==
    \A updates \in UpdateMaps, block \in Blocks :
       LET first == update_state(accounts, updates, block)
           second == update_state(first.db, first.revert, block)
       IN \A a \in DOMAIN updates :
             /\ basic_ref(second.db, block, a).val = basic_ref(accounts, block, a).val
             /\ updates[a].storage # NoStorage =>
                   \A s \in DOMAIN updates[a].storage[1] :
                      storage_ref(second.db, block, a, s).val
                         = storage_ref(accounts, block, a, s).val

(***************************************************************************)
(* Spot prices and the token registry                                      *)
(***************************************************************************)
MissesPoolToken(tokens) == \E i \in 1..Len(pool.tokens) : pool.tokens[i] \notin DOMAIN tokens

\* C36, as stated: in every state of the pool, set_spot_prices with a registry
\* that lacks a pool token fails with FatalError, whatever the capabilities.
C36_Original ==
    \A tokens \in Registries :
       MissesPoolToken(tokens) =>
          /\ ~set_spot_prices(pool, tokens).ok
          /\ set_spot_prices(pool, tokens).error = "FatalError"

\* C36, amended: with a registry that lacks a pool token, a pool without
\* ScaledPrice fails, and with FatalError when the same call succeeds under
\* the complete registry; a pool with ScaledPrice does what it does under the
\* complete registry.
C36_MissingDecimals ==
    \A tokens \in Registries :
       MissesPoolToken(tokens) =>
          LET r == set_spot_prices(pool, tokens)
              full == set_spot_prices(pool, AllTokens)
          IN IF ScaledPrice \in pool.capabilities
             THEN r = full
             ELSE /\ ~r.ok
                  /\ full.ok => r.error = "FatalError"

\* set_spot_prices has failed on a pool without ScaledPrice in a state in
\* which the complete registry makes it succeed.
C36_Witness ==
    /\ poolRet.op = "set_spot_prices"
    /\ poolRet.kind = "Error"
    /\ ScaledPrice \notin pool.capabilities
    /\ set_spot_prices(pool, AllTokens).ok
    /\ \E tokens \in Registries :
          MissesPoolToken(tokens) /\ set_spot_prices(pool, tokens).error = "FatalError"

(***************************************************************************)
(* Freshness of the recorded amounts                                       *)
(***************************************************************************)
\* The pools of message whose update is offered for the pair and cannot be
\* quoted.
UnquotedIn(message, registered) ==
    {id \in DOMAIN message.states \cap DOMAIN registered :
        /\ {sell_token, buy_token} \subseteq TokenSet(registered[id].tokens)
        /\ state_get_amount_out(message.states[id]) = <<>>}

\* C37: when the update of a pool in a block cannot be quoted, the amount
\* recorded for that pool in an earlier block is no longer in amounts_out
\* and the pool is not returned as the best swap.
C37_StaleAmountNotEligible ==
    [][\A message \in BlockUpdates :
          GetBestSwap(message) =>
             \A id \in UnquotedIn(message, pairs') :
                /\ id \notin DOMAIN amounts_out'
                /\ quickRet'.ret # <<>> => quickRet'.ret[1][1] # id]_vars

(***************************************************************************)
(* Approval before swap                                                    *)
(***************************************************************************)
\* C38: an /execute call sends the swap only when the approval was sent and
\* its receipt was obtained and shows success; otherwise no swap is sent and
\* the answer carries an error.
C38_SwapOnlyAfterApprovedApproval ==
    [][\A t \in DOMAIN tasks : \A net \in NetScripts :
          ExecuteRespond(t, net) =>
             LET approved == /\ net.encode = "ok"
                             /\ net.requests = "ok"
                             /\ net.approval_send = "ok"
                             /\ net.approval_receipt = "success"
             IN /\ "swap" \in TokenSet(httpRet'.sent) => approved
                /\ ~approved => ~httpRet'.body[1].success]_vars

(***************************************************************************)
(* The standard input amount                                               *)
(***************************************************************************)
\* C39: for every token of the registry the standard amount 10u32.pow(decimals)
\* is the power of ten itself and its computation does not overflow, so no
\* update_state ends in an overflow panic.
C39_StandardAmountIsPowerOfTen ==
    /\ \A a \in DOMAIN service.tokens :
          /\ ~pow10_u32(service.tokens[a]).overflow
          /\ pow10_u32(service.tokens[a]).value = 10 ^ service.tokens[a]
    /\ ~updRet.panicked

(***************************************************************************)
(* The tick list of a decoded UniswapV4 state                              *)
(***************************************************************************)
DecodedTicks == decRet.ret.state.ticks

\* The tick keys of the decoded snapshot whose net liquidity is not zero.
KeptKeys == {k \in DOMAIN decRet.snapshot.ticks : decRet.snapshot.ticks[k] # 0}

NoZeroNetLiquidity == \A i \in 1..Len(DecodedTicks) : DecodedTicks[i].net_liquidity # 0

\* C40, as stated: the tick list of a decoded UniswapV4 state is strictly
\* ascending by index and has no tick of zero net liquidity.
C40_Original ==
    (decRet.op = "uniswap_v4" /\ decRet.ret.ok) =>
       /\ \A i \in 1..(Len(DecodedTicks) - 1) :
             DecodedTicks[i].index < DecodedTicks[i + 1].index
       /\ NoZeroNetLiquidity

\* C40, amended: the tick list of a decoded UniswapV4 state has one tick for
\* every tick key of non-zero net liquidity, none of zero net liquidity, and
\* is ascending by index; it is strictly ascending exactly when no two of
\* those keys parse to one index.
C40_TicksSortedNoZero ==
    (decRet.op = "uniswap_v4" /\ decRet.ret.ok) =>
       /\ Len(DecodedTicks) = Cardinality(KeptKeys)
       /\ \A k \in KeptKeys :
             \E i \in 1..Len(DecodedTicks) :
                DecodedTicks[i] = TickInfo(parse_i32(k)[1], decRet.snapshot.ticks[k])
       /\ NoZeroNetLiquidity
       /\ \A i \in 1..(Len(DecodedTicks) - 1) :
             DecodedTicks[i].index <= DecodedTicks[i + 1].index
       /\ (\A i \in 1..(Len(DecodedTicks) - 1) :
              DecodedTicks[i].index < DecodedTicks[i + 1].index)
          <=> (\A j, k \in KeptKeys : parse_i32(j) = parse_i32(k) => j = k)

\* A snapshot with two ticks of different index and a tick of zero net
\* liquidity was decoded.
C40_Witness ==
    /\ decRet.op = "uniswap_v4"
    /\ decRet.ret.ok
    /\ Len(DecodedTicks) = 2
    /\ DecodedTicks[1].index < DecodedTicks[2].index
    /\ KeptKeys # DOMAIN decRet.snapshot.ticks

=============================================================================
